---------------------------- MODULE Spec2Model ----------------------------
(***************************************************************************)
(* Math kernel utilities of pennylane-lightning (Util.hpp, non-BLAS build: *)
(* USE_CBLAS == 0): innerProd / innerProdC, matrixVecProd, matrixMatProd   *)
(* and Transpose, with the worker threads they spawn.                      *)
(*                                                                         *)
(* std::complex<T> values are Gaussian integers <<re, im>>, so every sum   *)
(* and product is exact.  Arrays are sequences; the C++ index i is the     *)
(* sequence index i + 1.                                                   *)
(***************************************************************************)
EXTENDS Integers, Sequences, FiniteSets, TLC

(***************************************************************************)
(* Bounds of the model.                                                    *)
(***************************************************************************)
\* longest vector given to innerProd / innerProdC
MaxLen == 4
\* largest nthreads
MaxThreads == 2
\* largest m, n, k given to matrixVecProd / matrixMatProd
MaxDim == 2
\* largest m, n given to Transpose
MaxT == 18
\* how many times a caller runs matrixVecProd on the same output buffer
MaxCalls == 2
\* largest data.size() given to dimSize
MaxSize == 70
\* largest number of qubits of a state vector
MaxQubits == 3

(***************************************************************************)
(* Program constants.                                                      *)
(***************************************************************************)
\* DOTU_STD_CROSSOVER / DOTC_STD_CROSSOVER are (1 << 20) in the source; the
\* model scales them to 3 so that vectors of MaxLen elements reach both the
\* threaded path (data_size <= crossover) and the sequential one.
DOTU_STD_CROSSOVER == 3
DOTC_STD_CROSSOVER == 3
BLOCK_THRESHOLD == 16

\* a null output pointer: no buffer behind it (the buffers of the matrix
\* kernels have m, n, k >= 1 and are never empty)
nullptr == <<>>
\* a read that faults gives no value
fault == <<>>
\* the mutex is free
unlocked == -1

(***************************************************************************)
(* std::complex<T> arithmetic.                                             *)
(***************************************************************************)
ZERO == <<0, 0>>
ONE == <<1, 0>>
IMAG == <<0, 1>>

real(a) == a[1]
imag(a) == a[2]

\* operator+ / operator+= of std::complex
cadd(a, b) == <<real(a) + real(b), imag(a) + imag(b)>>

\* operator* of std::complex
cmul(a, b) ==
    <<real(a) * real(b) - imag(a) * imag(b),
      real(a) * imag(b) + imag(a) * real(b)>>

conj_id(a) == a

\* std::conj
conj(a) == <<real(a), -imag(a)>>

ConstMult(a, b) ==
    <<real(a) * real(b) - imag(a) * imag(b),
      real(a) * imag(b) + imag(a) * real(b)>>

ConstMultConj_second(a, b) ==
    <<real(a) * real(b) + imag(a) * imag(b),
      imag(a) * real(b) - real(a) * imag(b)>>

ConstMultConj(a, b) ==
    <<real(a) * real(b) + imag(a) * imag(b),
      (-imag(a)) * real(b) + real(a) * imag(b)>>

ConstSum(a, b) == cadd(a, b)

\* std::inner_product(v1, v1 + data_size, v2, std::complex<T>(), ConstSum,
\* ConstMult): a left fold over the indices
inner_product_ConstMult(a, b, init) ==
    LET acc[j \in 0..Len(a)] ==
            IF j = 0 THEN init
            ELSE ConstSum(acc[j - 1], ConstMult(a[j], b[j]))
    IN  acc[Len(a)]

\* std::inner_product(v1, v1 + data_size, v2, std::complex<T>(), ConstSum,
\* ConstMultConj)
inner_product_ConstMultConj(a, b, init) ==
    LET acc[j \in 0..Len(a)] ==
            IF j = 0 THEN init
            ELSE ConstSum(acc[j - 1], ConstMultConj(a[j], b[j]))
    IN  acc[Len(a)]

(***************************************************************************)
(* partition(n, data_size): the n + 1 chunk boundaries, for n >= 1.        *)
(***************************************************************************)
RECURSIVE partition_loop(_, _, _, _, _, _)
\* the for loop of partition: i is the loop counter, n1 the last boundary
partition_loop(n, data_size, d, i, n1, bnd) ==
    IF i < n
    THEN LET n2 == IF i = n - 1 THEN data_size ELSE n1 + d
         IN  partition_loop(n, data_size, d, i + 1, n2, Append(bnd, n2))
    ELSE bnd

RECURSIVE partition_noremainder_loop(_, _, _, _, _, _)
partition_noremainder_loop(n, data_size, d, i, n1, bnd) ==
    IF i < n
    THEN partition_noremainder_loop(n, data_size, d, i + 1, n1 + d,
                                    Append(bnd, n1 + d))
    ELSE bnd

partition_noremainder(n, data_size) ==
    partition_noremainder_loop(n, data_size, data_size \div n, 0, 0, <<0>>)

partition(n, data_size) ==
    IF n = 1
    THEN <<0, data_size>>
    ELSE partition_loop(n, data_size, data_size \div n, 0, 0, <<0>>)

(***************************************************************************)
(* State.                                                                  *)
(***************************************************************************)
VARIABLES
    kernel,     \* the kernel being called
    nthreads,   \* its nthreads argument
    calls,      \* calls made so far on the same buffers
    mpc,        \* position of the calling thread
    ti,         \* the caller's loop counter over threads
    bnd,        \* const std::vector<std::size_t> bnd
    threads,    \* std::vector<std::thread> threads: one record per worker
    v1, v2,     \* innerProd / innerProdC: the two input vectors
    result,     \* std::complex<T> result, shared by reference with the workers
    barrier,    \* static std::mutex barrier: its owner, or unlocked
    peer,       \* a second innerProd / innerProdC call running at the same time
    ret,        \* the value the call returned
    m, n, k,    \* matrix dimensions
    transpose,  \* the transpose flag
    mat, v_in,  \* matrixVecProd / Transpose inputs
    v_out,      \* matrixVecProd output buffer, or nullptr
    m_left, m_right,  \* matrixMatProd inputs
    m_out,      \* matrixMatProd output buffer, or nullptr
    mat_t,      \* Transpose output buffer
    stack,      \* CFTranspose activation records, innermost first
    mat0,       \* ghost: the matrix given to the first Transpose
    out0,      \* ghost: the output buffer as it was when the call started
    touched,    \* ghost: how often each output cell was written in this call
    accessed,   \* ghost: some buffer was read or written in this call
    data,       \* dimSize: const std::vector<T> &data
    expression, \* PL_ABORT_IF / PL_ABORT_IF_NOT / PL_ASSERT: the expression
    message,    \* PL_ABORT...: the message
    file_name,  \* __FILE__ at the place of the macro
    line,       \* __LINE__ at the place of the macro
    function_name,  \* __func__ at the place of the macro
    thrown,     \* the exception the call has thrown, or nothing
    psi,        \* StateVector psi: the amplitude buffer it views
    gate,       \* the gate descriptor given to applyOperation
    operations, \* adjointJacobian: the gates of the circuit, in order
    observables,        \* adjointJacobian: the observables
    trainableParams,    \* adjointJacobian: indices of the trainable parameters
    jacobian,   \* adjointJacobian: the Jacobian buffer
    ket,        \* adjointJacobian: the running ket
    bras,       \* adjointJacobian: one bra per observable
    op_idx,     \* adjointJacobian: the gate the backward sweep is at
    psi0,       \* ghost: the buffer before the first gate application
    fwd,        \* ghost: the states of the forward pass
    undone      \* ghost: how often each gate was un-applied to ket and bras

vars == <<kernel, nthreads, calls, mpc, ti, bnd, threads, v1, v2, result,
          barrier, ret, m, n, k, transpose, mat, v_in, v_out, m_left,
          m_right, m_out, mat_t, stack, mat0, out0, touched, accessed,
          data, expression, message, file_name, line, function_name, thrown,
          psi, gate, operations, observables, trainableParams, jacobian, ket,
          bras, op_idx, psi0, fwd, undone, peer>>

innerIn == <<v1, v2>>
innerState == <<result, barrier, ret>>
dimsIn == <<m, n, k, transpose>>
mvIn == <<mat, v_in>>
mmIn == <<m_left, m_right>>
tState == <<mat_t, stack, mat0>>
callIn == <<kernel, nthreads, calls>>

\* a variable the running kernel does not have
unused == <<>>

\* the state of the simulator and of adjoint differentiation
sim ==
    <<psi, gate, operations, observables, trainableParams, jacobian, ket,
      bras, op_idx, psi0, fwd, undone>>

\* the simulator is not running
SimIdle ==
    /\ psi = unused /\ gate = unused
    /\ operations = unused /\ observables = unused
    /\ trainableParams = unused /\ jacobian = unused
    /\ ket = unused /\ bras = unused /\ op_idx = 0
    /\ psi0 = unused /\ fwd = unused /\ undone = unused

\* the state of the utilities other than the math kernels
others ==
    <<data, expression, message, file_name, line, function_name, thrown,
      psi, gate, operations, observables, trainableParams, jacobian, ket,
      bras, op_idx, psi0, fwd, undone, peer>>

\* no utility other than a math kernel is running
OthersIdle ==
    /\ data = unused
    /\ expression = unused /\ message = unused
    /\ file_name = unused /\ line = unused /\ function_name = unused
    /\ thrown = unused
    /\ SimIdle
    /\ peer = unused

(***************************************************************************)
(* Inputs.                                                                 *)
(***************************************************************************)
CVals == {ONE, IMAG}

\* all entries equal
ConstVec(len, c) == [j \in 1..len |-> c]
\* one entry c, the others zero
UnitVec(len, p, c) == [j \in 1..len |-> IF j = p THEN c ELSE ZERO]

\* the vectors of a given length the kernels are run on: the constant ones
\* and the scaled unit vectors (a basis, the kernels being bilinear)
Vecs(len) ==
    {ConstVec(len, c) : c \in CVals}
        \cup {UnitVec(len, p, c) : p \in 1..len, c \in CVals}

\* the matrices and vectors the matrix kernels are run on: the unit ones (a
\* basis, the kernels being bilinear) and a dense imaginary one
MatVecs(len) ==
    {ConstVec(len, IMAG)} \cup {UnitVec(len, p, ONE) : p \in 1..len}

(***************************************************************************)
(* innerProd / innerProdC                                                  *)
(***************************************************************************)
InitInner ==
    /\ kernel \in {"innerProd", "innerProdC"}
    /\ nthreads \in 1..MaxThreads
    /\ \E len \in 0..MaxLen : v1 \in Vecs(len) /\ v2 \in Vecs(len)
    /\ calls = 1
    /\ mpc = "call"
    /\ ti = 0
    /\ bnd = <<>>
    /\ threads = <<>>
    /\ result = ZERO
    /\ barrier = unlocked
    /\ ret = unused
    /\ m = unused /\ n = unused /\ k = unused /\ transpose = unused
    /\ mat = unused /\ v_in = unused /\ v_out = unused
    /\ m_left = unused /\ m_right = unused /\ m_out = unused
    /\ mat_t = unused /\ stack = <<>> /\ mat0 = unused
    /\ out0 = unused /\ touched = unused /\ accessed = FALSE
    /\ OthersIdle

data_size == Len(v1)

crossover == IF kernel = "innerProd" THEN DOTU_STD_CROSSOVER
             ELSE DOTC_STD_CROSSOVER

\* innerProd / innerProdC up to the choice of the path: the sequential path
\* computes the result at once, the threaded path partitions the index range
InnerCall ==
    /\ mpc = "call"
    /\ kernel \in {"innerProd", "innerProdC"}
    /\ IF data_size > crossover
       THEN /\ result' = IF kernel = "innerProd"
                         THEN inner_product_ConstMult(v1, v2, ZERO)
                         ELSE inner_product_ConstMultConj(v1, v2, ZERO)
            /\ mpc' = "return"
            /\ bnd' = bnd
       ELSE /\ bnd' = partition(nthreads, data_size)
            /\ mpc' = "spawn"
            /\ result' = result
    /\ UNCHANGED others
    /\ UNCHANGED <<callIn, ti, threads, innerIn, barrier, ret, dimsIn, mvIn,
                   v_out, mmIn, m_out, tState, out0, touched, accessed>>

\* one std::thread running _innerProd / _innerProdC on [l, r)
inner_thread(l, r) ==
    [pc |-> "loop", l |-> l, r |-> r, i |-> l, s |-> ZERO, t |-> ZERO]

\* the term _innerProd adds for index i
_innerProd(a, b) == cmul(a, b)

\* a worker that conjugates nothing
_innerProdC_unconjugated(a, b) == cmul(a, b)

\* the term _innerProdC adds for index i
_innerProdC(a, b) == cmul(conj(a), b)

\* for (i = l; i < r; ++i) s += ...: one iteration, or the exit of the loop
InnerLoop(w) ==
    /\ kernel \in {"innerProd", "innerProdC"}
    /\ threads[w].pc = "loop"
    /\ LET th == threads[w]
           term == IF kernel = "innerProd"
                   THEN _innerProd(v1[th.i + 1], v2[th.i + 1])
                   ELSE _innerProdC(v1[th.i + 1], v2[th.i + 1])
       IN  threads' =
               [threads EXCEPT ![w] =
                   IF th.i < th.r
                   THEN [th EXCEPT !.s = cadd(th.s, term), !.i = th.i + 1]
                   ELSE [th EXCEPT !.pc = "lock"]]
    /\ UNCHANGED others
    /\ UNCHANGED <<callIn, mpc, ti, bnd, innerIn, innerState, dimsIn, mvIn,
                   v_out, mmIn, m_out, tState, out0, touched, accessed>>

mutex_ignored(b) == TRUE

\* std::mutex::lock returns only when no thread owns the mutex
mutex_free(b) == b = unlocked

mutex_kept(b, w) == b

\* the lock_guard's destructor: the owner releases the mutex
mutex_unlock(b, w) == IF b = w THEN unlocked ELSE b

\* std::lock_guard<std::mutex> ...(barrier)
InnerLock(w) ==
    /\ kernel \in {"innerProd", "innerProdC"}
    /\ threads[w].pc = "lock"
    /\ mutex_free(barrier)
    /\ barrier' = w
    /\ threads' = [threads EXCEPT ![w].pc = "load"]
    /\ UNCHANGED others
    /\ UNCHANGED <<callIn, mpc, ti, bnd, innerIn, result, ret, dimsIn, mvIn,
                   v_out, mmIn, m_out, tState, out0, touched, accessed>>

\* result += s, first half: read result
InnerLoad(w) ==
    /\ kernel \in {"innerProd", "innerProdC"}
    /\ threads[w].pc = "load"
    /\ threads' = [threads EXCEPT ![w].t = result, ![w].pc = "store"]
    /\ UNCHANGED others
    /\ UNCHANGED <<callIn, mpc, ti, bnd, innerIn, innerState, dimsIn, mvIn,
                   v_out, mmIn, m_out, tState, out0, touched, accessed>>

\* result += s, second half: write the sum; then the function returns, the
\* lock_guard releases the mutex and the thread ends
InnerStore(w) ==
    /\ kernel \in {"innerProd", "innerProdC"}
    /\ threads[w].pc = "store"
    /\ result' = cadd(threads[w].t, threads[w].s)
    /\ barrier' = mutex_unlock(barrier, w)
    /\ threads' = [threads EXCEPT ![w].pc = "done"]
    /\ UNCHANGED others
    /\ UNCHANGED <<callIn, mpc, ti, bnd, innerIn, ret, dimsIn, mvIn,
                   v_out, mmIn, m_out, tState, out0, touched, accessed>>

(***************************************************************************)
(* matrixVecProd / matrixMatProd                                           *)
(***************************************************************************)
\* an output buffer of len zeros, as the caller pre-zeroes it
Zeros(len) == ConstVec(len, ZERO)

InitMat ==
    /\ kernel \in {"matrixVecProd", "matrixMatProd"}
    /\ nthreads \in 1..MaxThreads
    /\ m \in 1..MaxDim
    /\ n \in 1..MaxDim
    /\ transpose \in BOOLEAN
    /\ IF kernel = "matrixVecProd"
       THEN /\ k = unused
            /\ mat \in MatVecs(m * n)
            /\ v_in \in MatVecs(n)
            /\ v_out \in {nullptr, Zeros(m)}
            /\ m_left = unused /\ m_right = unused /\ m_out = unused
       ELSE /\ k \in 1..MaxDim
            /\ m_left \in MatVecs(m * k)
            /\ m_right \in MatVecs(k * n)
            /\ m_out \in {nullptr, Zeros(m * n)}
            /\ mat = unused /\ v_in = unused /\ v_out = unused
    /\ calls = 1
    /\ mpc = "call"
    /\ ti = 0
    /\ bnd = <<>>
    /\ threads = <<>>
    /\ v1 = unused /\ v2 = unused
    /\ result = unused /\ barrier = unlocked /\ ret = unused
    /\ mat_t = unused /\ stack = <<>> /\ mat0 = unused
    /\ out0 = unused /\ touched = unused /\ accessed = FALSE
    /\ OthersIdle

\* the output pointer of the running matrix kernel
out_ptr == IF kernel = "matrixVecProd" THEN v_out ELSE m_out

\* one std::thread running _matrixVecProd on the rows [left, right)
mv_thread(left, right) ==
    [pc |-> "run", left |-> left, right |-> right, r |-> left, c |-> 0]

\* one std::thread running _matrixMatProd / _matrixMatProd_tp on [left, right)
mm_thread(left, right) ==
    [pc |-> "run", left |-> left, right |-> right, r |-> left, c |-> 0]

_matrixVecProd_assign(A, x, y, rows, cols, r, c, tr) ==
    [y EXCEPT ![r + 1] =
        cmul(A[(IF tr THEN c * rows + r ELSE r * cols + c) + 1], x[c + 1])]

\* v_out[r] += mat[c * m + r] * v_in[c] (transpose), or
\* v_out[r] += mat[r * n + c] * v_in[c]: the buffer y after the statement
_matrixVecProd(A, x, y, rows, cols, r, c, tr) ==
    [y EXCEPT ![r + 1] =
        cadd(y[r + 1],
             cmul(A[(IF tr THEN c * rows + r ELSE r * cols + c) + 1],
                  x[c + 1]))]

\* the two nested loops of _matrixVecProd: one execution of the inner
\* statement, or the exit of the outer loop.  A write through a null v_out
\* is undefined behaviour: the process faults.
MVStep(w) ==
    /\ kernel = "matrixVecProd"
    /\ mpc # "crashed"
    /\ threads[w].pc = "run"
    /\ LET th == threads[w]
           c1 == IF th.c + 1 < n THEN th.c + 1 ELSE 0
           r1 == IF th.c + 1 < n THEN th.r ELSE th.r + 1
       IN  IF th.r < th.right /\ th.c < n
           THEN IF v_out = nullptr
                THEN /\ mpc' = "crashed"
                     /\ UNCHANGED <<v_out, touched, threads>>
                ELSE /\ v_out' = _matrixVecProd(mat, v_in, v_out, m, n,
                                                th.r, th.c, transpose)
                     /\ touched' = [touched EXCEPT ![th.r + 1] = @ + 1]
                     /\ threads' = [threads EXCEPT ![w].r = r1, ![w].c = c1]
                     /\ mpc' = mpc
           ELSE /\ threads' = [threads EXCEPT ![w].pc = "done"]
                /\ UNCHANGED <<v_out, touched, mpc>>
    /\ accessed' = (accessed \/ threads[w].r < threads[w].right)
    /\ UNCHANGED others
    /\ UNCHANGED <<callIn, ti, bnd, innerIn, innerState, dimsIn, mvIn,
                   mmIn, m_out, tState, out0>>

\* some index first + b * step, for b in [0, k), lies past the end of the
\* buffer R
past_end(R, first, step, kk) ==
    \E b \in 0..(kk - 1) : first + b * step >= Len(R)

\* for (b = 0; b < k; ++b) m_out[r * n + c] += m_left[r * k + b] *
\* m_right[c * n + b]: the cell's value after the loop, acc being its value
\* before
_matrixMatProd_tp(L, R, acc, kk, cols, r, c) ==
    LET sum[b \in 0..kk] ==
            IF b = 0 THEN acc
            ELSE cadd(sum[b - 1],
                      cmul(L[r * kk + (b - 1) + 1], R[c * cols + (b - 1) + 1]))
    IN  sum[kk]

\* for (b = 0; b < k; ++b) m_out[r * n + c] += m_left[r * k + b] *
\* m_right[b * n + c]
_matrixMatProd(L, R, acc, kk, cols, r, c) ==
    LET sum[b \in 0..kk] ==
            IF b = 0 THEN acc
            ELSE cadd(sum[b - 1],
                      cmul(L[r * kk + (b - 1) + 1], R[(b - 1) * cols + c + 1]))
    IN  sum[kk]

\* what the values read past the end of a buffer (undefined behaviour) can
\* make of a cell: any value, or no value when the read faults
JunkVals == {ZERO, IMAG}

\* the values m_out[r * n + c] can have after the b loop of the kernel that
\* matrixMatProd starts: _matrixMatProd when transpose is set,
\* _matrixMatProd_tp when it is not
mm_cell(r, c) ==
    IF transpose
    THEN IF past_end(m_right, c, n, k)
         THEN JunkVals \cup {fault}
         ELSE {_matrixMatProd(m_left, m_right, m_out[r * n + c + 1], k, n,
                              r, c)}
    ELSE IF past_end(m_right, c * n, 1, k)
         THEN JunkVals \cup {fault}
         ELSE {_matrixMatProd_tp(m_left, m_right, m_out[r * n + c + 1], k, n,
                                 r, c)}

\* the loops over r and c of _matrixMatProd / _matrixMatProd_tp: one
\* execution of the b loop, or the exit of the outer loop.  A write through
\* a null m_out is undefined behaviour: the process faults.
MMStep(w) ==
    /\ kernel = "matrixMatProd"
    /\ mpc # "crashed"
    /\ threads[w].pc = "run"
    /\ LET th == threads[w]
           c1 == IF th.c + 1 < n THEN th.c + 1 ELSE 0
           r1 == IF th.c + 1 < n THEN th.r ELSE th.r + 1
       IN  IF th.r < th.right /\ th.c < n
           THEN IF m_out = nullptr
                THEN /\ mpc' = "crashed"
                     /\ UNCHANGED <<m_out, touched, threads>>
                ELSE \E y \in mm_cell(th.r, th.c) :
                       IF y = fault
                       THEN /\ mpc' = "crashed"
                            /\ UNCHANGED <<m_out, touched, threads>>
                       ELSE /\ m_out' =
                                 [m_out EXCEPT ![th.r * n + th.c + 1] = y]
                            /\ touched' =
                                 [touched EXCEPT ![th.r * n + th.c + 1] = @ + 1]
                            /\ threads' =
                                 [threads EXCEPT ![w].r = r1, ![w].c = c1]
                            /\ mpc' = mpc
           ELSE /\ threads' = [threads EXCEPT ![w].pc = "done"]
                /\ UNCHANGED <<m_out, touched, mpc>>
    /\ accessed' = (accessed \/ threads[w].r < threads[w].right)
    /\ UNCHANGED others
    /\ UNCHANGED <<callIn, ti, bnd, innerIn, innerState, dimsIn, mvIn,
                   v_out, mmIn, tState, out0>>

(***************************************************************************)
(* The calling thread: spawn the workers, join them, return.               *)
(***************************************************************************)
new_thread_from_zero(left, right) ==
    CASE kernel \in {"innerProd", "innerProdC"} -> inner_thread(0, right)
      [] kernel = "matrixVecProd" -> mv_thread(0, right)
      [] kernel = "matrixMatProd" -> mm_thread(0, right)

\* the std::thread constructed for chunk [left, right)
new_thread(left, right) ==
    CASE kernel \in {"innerProd", "innerProdC"} -> inner_thread(left, right)
      [] kernel = "matrixVecProd" -> mv_thread(left, right)
      [] kernel = "matrixMatProd" -> mm_thread(left, right)

\* threads.push_back(std::thread(..., bnd[i], bnd[i + 1])): one iteration
Spawn ==
    /\ mpc = "spawn"
    /\ threads' = Append(threads, new_thread(bnd[ti + 1], bnd[ti + 2]))
    /\ IF ti + 1 < nthreads
       THEN ti' = ti + 1 /\ mpc' = mpc
       ELSE ti' = 0 /\ mpc' = "join"
    /\ UNCHANGED others
    /\ UNCHANGED <<callIn, bnd, innerIn, innerState, dimsIn, mvIn,
                   v_out, mmIn, m_out, tState, out0, touched, accessed>>

join_nowait(th) == TRUE

\* std::thread::join returns once the thread has finished
joined(th) == th.pc = "done"

\* for (auto &h : threads) h.join(): one iteration
Join ==
    /\ mpc = "join"
    /\ joined(threads[ti + 1])
    /\ IF ti + 1 < nthreads
       THEN ti' = ti + 1 /\ mpc' = mpc
       ELSE ti' = 0 /\ mpc' = "return"
    /\ UNCHANGED others
    /\ UNCHANGED <<callIn, bnd, threads, innerIn, innerState, dimsIn, mvIn,
                   v_out, mmIn, m_out, tState, out0, touched, accessed>>

\* return result (innerProd, innerProdC); the end of a void kernel
Return ==
    /\ mpc = "return"
    /\ mpc' = "returned"
    /\ ret' = IF kernel \in {"innerProd", "innerProdC"} THEN result ELSE ret
    /\ UNCHANGED others
    /\ UNCHANGED <<callIn, ti, bnd, threads, innerIn, result, barrier, dimsIn,
                   mvIn, v_out, mmIn, m_out, tState, out0, touched, accessed>>

null_unchecked(p) == FALSE

\* if (!v_out) / if (!m_out)
is_null(p) == p = nullptr

\* matrixVecProd / matrixMatProd up to the partition of the rows: a null
\* output pointer returns at once
MatCall ==
    /\ mpc = "call"
    /\ kernel \in {"matrixVecProd", "matrixMatProd"}
    /\ IF is_null(out_ptr)
       THEN /\ mpc' = "return"
            /\ UNCHANGED <<bnd, out0, touched>>
       ELSE /\ bnd' = partition(nthreads, m)
            /\ mpc' = "spawn"
            /\ out0' = out_ptr
            /\ touched' = IF out_ptr = nullptr THEN unused
                          ELSE [j \in 1..Len(out_ptr) |-> 0]
    /\ UNCHANGED others
    /\ UNCHANGED <<callIn, ti, threads, innerIn, innerState, dimsIn, mvIn,
                   v_out, mmIn, m_out, tState, accessed>>

\* the caller runs matrixVecProd again on the same buffers
CallAgain ==
    /\ mpc = "returned"
    /\ kernel = "matrixVecProd"
    /\ calls < MaxCalls
    /\ calls' = calls + 1
    /\ mpc' = "call"
    /\ threads' = <<>>
    /\ bnd' = <<>>
    /\ accessed' = FALSE
    /\ UNCHANGED others
    /\ UNCHANGED <<kernel, nthreads, ti, innerIn, innerState, dimsIn, mvIn,
                   v_out, mmIn, m_out, tState, out0, touched>>

(***************************************************************************)
(* partition on its own, as the kernels call it: partition(nthreads, m).   *)
(***************************************************************************)
\* the bound on the number of chunks
MaxParts == 6

InitPartition ==
    /\ kernel = "partition"
    /\ nthreads \in 1..MaxParts
    /\ m \in 0..MaxSize
    /\ calls = 1
    /\ mpc = "call"
    /\ ti = 0
    /\ bnd = <<>>
    /\ threads = <<>>
    /\ v1 = unused /\ v2 = unused
    /\ result = unused /\ barrier = unlocked
    /\ ret = unused
    /\ n = unused /\ k = unused /\ transpose = unused
    /\ mat = unused /\ v_in = unused /\ v_out = unused
    /\ m_left = unused /\ m_right = unused /\ m_out = unused
    /\ mat_t = unused /\ stack = <<>> /\ mat0 = unused
    /\ out0 = unused /\ touched = unused /\ accessed = FALSE
    /\ OthersIdle

\* const std::vector<std::size_t> bnd = partition(nthreads, m)
PartitionCall ==
    /\ kernel = "partition"
    /\ mpc = "call"
    /\ bnd' = partition(nthreads, m)
    /\ mpc' = "returned"
    /\ UNCHANGED others
    /\ UNCHANGED <<callIn, ti, threads, innerIn, innerState, dimsIn, mvIn,
                   v_out, mmIn, m_out, tState, out0, touched, accessed>>

(***************************************************************************)
(* A second innerProd / innerProdC call, made by another thread of the     *)
(* program on its own vectors while the first call runs.  Its workers run  *)
(* the same _innerProd / _innerProdC, which locks the one static barrier.  *)
(***************************************************************************)
\* the bound on the vectors of the two calls
MaxPeerLen == 2

\* the owner a worker of the second call writes into the barrier: distinct
\* from the workers 1, 2, ... of the first call and from unlocked
peer_thread(w) == 0 - (w + 1)

InitConcurrent ==
    /\ kernel \in {"innerProd", "innerProdC"}
    /\ nthreads \in 1..MaxThreads
    /\ \E len \in 1..MaxPeerLen, c \in CVals :
          v1 = ConstVec(len, c) /\ v2 = ConstVec(len, IMAG)
    /\ \E len \in 1..MaxPeerLen :
          peer = [pc |-> "call", nthreads |-> 1,
                  v1 |-> ConstVec(len, IMAG), v2 |-> ConstVec(len, ONE),
                  result |-> ZERO, bnd |-> <<>>, threads |-> <<>>,
                  ret |-> unused]
    /\ calls = 1
    /\ mpc = "call"
    /\ ti = 0
    /\ bnd = <<>>
    /\ threads = <<>>
    /\ result = ZERO
    /\ barrier = unlocked
    /\ ret = unused
    /\ m = unused /\ n = unused /\ k = unused /\ transpose = unused
    /\ mat = unused /\ v_in = unused /\ v_out = unused
    /\ m_left = unused /\ m_right = unused /\ m_out = unused
    /\ mat_t = unused /\ stack = <<>> /\ mat0 = unused
    /\ out0 = unused /\ touched = unused /\ accessed = FALSE
    /\ data = unused
    /\ expression = unused /\ message = unused
    /\ file_name = unused /\ line = unused /\ function_name = unused
    /\ thrown = unused
    /\ SimIdle

\* everything but the second call and the barrier
first_call ==
    <<kernel, nthreads, calls, mpc, ti, bnd, threads, v1, v2, result, ret, m,
      n, k, transpose, mat, v_in, v_out, m_left, m_right, m_out, mat_t,
      stack, mat0, out0, touched, accessed, data, expression, message,
      file_name, line, function_name, thrown, psi, gate, operations,
      observables, trainableParams, jacobian, ket, bras, op_idx, psi0, fwd,
      undone>>

\* the second call up to its join loop: the threaded path (its data size is
\* below the crossover), with its one worker spawned
PeerCall ==
    /\ kernel \in {"innerProd", "innerProdC"}
    /\ peer # unused
    /\ peer.pc = "call"
    /\ Len(peer.v1) <= crossover
    /\ LET b == partition(peer.nthreads, Len(peer.v1))
       IN  peer' = [peer EXCEPT !.bnd = b,
                                !.threads = <<inner_thread(b[1], b[2])>>,
                                !.pc = "join"]
    /\ UNCHANGED first_call
    /\ UNCHANGED barrier

\* the loop of a worker of the second call
PeerLoop(w) ==
    /\ kernel \in {"innerProd", "innerProdC"}
    /\ peer # unused
    /\ w \in DOMAIN peer.threads
    /\ peer.threads[w].pc = "loop"
    /\ LET th == peer.threads[w]
           term == IF kernel = "innerProd"
                   THEN _innerProd(peer.v1[th.i + 1], peer.v2[th.i + 1])
                   ELSE _innerProdC(peer.v1[th.i + 1], peer.v2[th.i + 1])
       IN  peer' =
               [peer EXCEPT !.threads[w] =
                   IF th.i < th.r
                   THEN [th EXCEPT !.s = cadd(th.s, term), !.i = th.i + 1]
                   ELSE [th EXCEPT !.pc = "lock"]]
    /\ UNCHANGED first_call
    /\ UNCHANGED barrier

\* std::lock_guard<std::mutex> ...(barrier) in a worker of the second call
PeerLock(w) ==
    /\ kernel \in {"innerProd", "innerProdC"}
    /\ peer # unused
    /\ w \in DOMAIN peer.threads
    /\ peer.threads[w].pc = "lock"
    /\ mutex_free(barrier)
    /\ barrier' = peer_thread(w)
    /\ peer' = [peer EXCEPT !.threads[w].pc = "store"]
    /\ UNCHANGED first_call

\* result += s in a worker of the second call, on that call's own result;
\* the lock_guard releases the barrier and the thread ends
PeerStore(w) ==
    /\ kernel \in {"innerProd", "innerProdC"}
    /\ peer # unused
    /\ w \in DOMAIN peer.threads
    /\ peer.threads[w].pc = "store"
    /\ peer' = [peer EXCEPT
                   !.result = cadd(peer.result, peer.threads[w].s),
                   !.threads[w].pc = "done"]
    /\ barrier' = mutex_unlock(barrier, peer_thread(w))
    /\ UNCHANGED first_call

\* the join loop and the return of the second call
PeerReturn ==
    /\ kernel \in {"innerProd", "innerProdC"}
    /\ peer # unused
    /\ peer.pc = "join"
    /\ \A w \in DOMAIN peer.threads : joined(peer.threads[w])
    /\ peer' = [peer EXCEPT !.pc = "returned", !.ret = peer.result]
    /\ UNCHANGED first_call
    /\ UNCHANGED barrier

(***************************************************************************)
(* Transpose / CFTranspose                                                 *)
(***************************************************************************)
\* the m x n matrix whose entries are all different
Distinct(rows, cols) == [j \in 1..(rows * cols) |-> <<j, -j>>]

InitT ==
    /\ kernel = "Transpose"
    /\ m \in 0..MaxT
    /\ n \in 0..MaxT
    /\ mat = Distinct(m, n)
    /\ mat0 = mat
    /\ mat_t = Zeros(n * m)
    /\ stack = <<>>
    /\ calls = 1
    /\ mpc = "call"
    /\ nthreads = unused /\ ti = 0 /\ bnd = <<>> /\ threads = <<>>
    /\ v1 = unused /\ v2 = unused
    /\ result = unused /\ barrier = unlocked /\ ret = unused
    /\ k = unused /\ transpose = unused
    /\ v_in = unused /\ v_out = unused
    /\ m_left = unused /\ m_right = unused /\ m_out = unused
    /\ out0 = unused /\ touched = unused /\ accessed = FALSE
    /\ OthersIdle

\* one activation of CFTranspose: its parameters m1, m2, n1, n2 and the row r
\* that the copy loop (for (r = m1; ...)) is at
frame(m1, m2, n1, n2) ==
    [m1 |-> m1, m2 |-> m2, n1 |-> n1, n2 |-> n2, r |-> m1]

\* Transpose: CFTranspose(mat, mat_t, m, n, 0, m, 0, n)
TransposeCall ==
    /\ mpc = "call"
    /\ kernel = "Transpose"
    /\ stack' = <<frame(0, m, 0, n)>>
    /\ mpc' = "run"
    /\ out0' = mat_t
    /\ touched' = [j \in 1..Len(mat_t) |-> 0]
    /\ UNCHANGED others
    /\ UNCHANGED <<callIn, ti, bnd, threads, innerIn, innerState, dimsIn,
                   mvIn, v_out, mmIn, m_out, mat_t, mat0, accessed>>

\* r1 = m2 - m1, s1 = n2 - n1
r1(f) == f.m2 - f.m1
s1(f) == f.n2 - f.n1

after_rows_skip(f, r2) == [f EXCEPT !.m1 = r2 + 1, !.r = r2 + 1]

\* m1 = r2; goto tail
after_rows(f, r2) == [f EXCEPT !.m1 = r2, !.r = r2]

\* n1 = s2; goto tail
after_cols(f, s2) == [f EXCEPT !.n1 = s2]

\* if (r1 >= s1 && r1 > BLOCK_THRESHOLD): the recursive call on the upper
\* rows, to be followed by the lower rows
CFSplitRows ==
    /\ mpc = "run"
    /\ kernel = "Transpose"
    /\ LET f == Head(stack)
           r2 == (f.m1 + f.m2) \div 2
       IN  /\ r1(f) >= s1(f) /\ r1(f) > BLOCK_THRESHOLD
           /\ stack' = <<frame(f.m1, r2, f.n1, f.n2), after_rows(f, r2)>>
                           \o Tail(stack)
    /\ UNCHANGED others
    /\ UNCHANGED <<callIn, mpc, ti, bnd, threads, innerIn, innerState, dimsIn,
                   mvIn, v_out, mmIn, m_out, mat_t, mat0, out0, touched,
                   accessed>>

\* else if (s1 > BLOCK_THRESHOLD): the recursive call on the left columns, to
\* be followed by the right columns
CFSplitCols ==
    /\ mpc = "run"
    /\ kernel = "Transpose"
    /\ LET f == Head(stack)
           s2 == (f.n1 + f.n2) \div 2
       IN  /\ ~(r1(f) >= s1(f) /\ r1(f) > BLOCK_THRESHOLD)
           /\ s1(f) > BLOCK_THRESHOLD
           /\ stack' = <<frame(f.m1, f.m2, f.n1, s2), after_cols(f, s2)>>
                           \o Tail(stack)
    /\ UNCHANGED others
    /\ UNCHANGED <<callIn, mpc, ti, bnd, threads, innerIn, innerState, dimsIn,
                   mvIn, v_out, mmIn, m_out, mat_t, mat0, out0, touched,
                   accessed>>

cell_stride_cols(rows, cols, r, s) == s * cols + r

\* the cell of mat_t that mat_t[s * m + r] = mat[r * n + s] writes
cell(rows, cols, r, s) == s * rows + r

RECURSIVE block_row(_, _, _, _)
\* for (s = n1; s < n2; ++s) mat_t[s * m + r] = mat[r * n + s]; from s on:
\* the buffer (t) and the count of writes to each of its cells (w)
block_row(f, r, s, st) ==
    IF s >= f.n2 THEN st
    ELSE LET j == cell(m, n, r, s) + 1
         IN  block_row(f, r, s + 1,
                       [t |-> [st.t EXCEPT ![j] = mat[r * n + s + 1]],
                        w |-> [st.w EXCEPT ![j] = @ + 1]])

\* neither dimension of the block exceeds BLOCK_THRESHOLD
is_block(f) ==
    /\ ~(r1(f) >= s1(f) /\ r1(f) > BLOCK_THRESHOLD)
    /\ ~(s1(f) > BLOCK_THRESHOLD)

\* else: for (r = m1; r < m2; ++r) for (s = n1; s < n2; ++s) ...: one
\* iteration of the loop over r
CFBlock ==
    /\ mpc = "run"
    /\ kernel = "Transpose"
    /\ LET f == Head(stack)
           st == block_row(f, f.r, f.n1, [t |-> mat_t, w |-> touched])
       IN  /\ is_block(f)
           /\ f.r < f.m2
           /\ mat_t' = st.t
           /\ touched' = st.w
           /\ stack' = <<[f EXCEPT !.r = f.r + 1]>> \o Tail(stack)
    /\ UNCHANGED others
    /\ UNCHANGED <<callIn, mpc, ti, bnd, threads, innerIn, innerState, dimsIn,
                   mvIn, v_out, mmIn, m_out, mat0, out0, accessed>>

\* the loop over r ends and the activation returns: to the activation that
\* called it, or to Transpose
CFReturn ==
    /\ mpc = "run"
    /\ kernel = "Transpose"
    /\ is_block(Head(stack))
    /\ Head(stack).r >= Head(stack).m2
    /\ stack' = Tail(stack)
    /\ mpc' = IF Tail(stack) = <<>> THEN "return" ELSE mpc
    /\ UNCHANGED others
    /\ UNCHANGED <<callIn, ti, bnd, threads, innerIn, innerState, dimsIn,
                   mvIn, v_out, mmIn, m_out, mat_t, mat0, out0, touched,
                   accessed>>

\* the caller transposes the result back: Transpose(mat_t, back, n, m)
TransposeBack ==
    /\ mpc = "returned"
    /\ kernel = "Transpose"
    /\ calls < 2
    /\ calls' = calls + 1
    /\ mat' = mat_t
    /\ mat_t' = Zeros(m * n)
    /\ m' = n
    /\ n' = m
    /\ mpc' = "call"
    /\ UNCHANGED others
    /\ UNCHANGED <<kernel, nthreads, ti, bnd, threads, innerIn, innerState,
                   k, transpose, v_in, v_out, mmIn, m_out, stack, mat0, out0,
                   touched, accessed>>

(***************************************************************************)
(* dimSize (Util.hpp) and the error macros (Error.hpp)                     *)
(***************************************************************************)
\* the math kernels are not running
MathIdle ==
    /\ nthreads = unused /\ calls = 1 /\ ti = 0 /\ bnd = <<>>
    /\ threads = <<>>
    /\ v1 = unused /\ v2 = unused
    /\ result = unused /\ barrier = unlocked
    /\ m = unused /\ n = unused /\ k = unused /\ transpose = unused
    /\ mat = unused /\ v_in = unused /\ v_out = unused
    /\ m_left = unused /\ m_right = unused /\ m_out = unused
    /\ mat_t = unused /\ stack = <<>> /\ mat0 = unused
    /\ out0 = unused /\ touched = unused /\ accessed = FALSE
    /\ peer = unused

\* the state of the math kernels
math ==
    <<nthreads, calls, ti, bnd, threads, v1, v2, result, barrier, m, n, k,
      transpose, mat, v_in, v_out, m_left, m_right, m_out, mat_t, stack,
      mat0, out0, touched, accessed, peer>>

\* static_cast<size_t>(std::floor(std::sqrt(s))): exact for the sizes a
\* vector can have
floor_sqrt(s) == CHOOSE q \in 0..s : q * q <= s /\ (q + 1) * (q + 1) > s

\* static_cast<size_t>(std::log2(value)), for value >= 1
log2(value) == CHOOSE e \in 0..value : 2 ^ e <= value /\ value < 2 ^ (e + 1)

RECURSIVE bit_and(_, _)
\* a & b on std::size_t
bit_and(a, b) ==
    IF a = 0 \/ b = 0 THEN 0
    ELSE (a % 2) * (b % 2) + 2 * bit_and(a \div 2, b \div 2)

\* an exception that drops its message
invalid_argument_blank(what_arg) ==
    [type |-> "std::invalid_argument", what |-> <<"">>]

\* throw std::invalid_argument(what_arg)
invalid_argument(what_arg) ==
    [type |-> "std::invalid_argument", what |-> <<what_arg>>]

InitDimSize ==
    /\ kernel = "dimSize"
    /\ \E s \in 0..MaxSize : data = [j \in 1..s |-> ZERO]
    /\ mpc = "call"
    /\ ret = unused
    /\ expression = unused /\ message = unused
    /\ file_name = unused /\ line = unused /\ function_name = unused
    /\ thrown = unused
    /\ SimIdle
    /\ MathIdle

perfect_square_unchecked(s, s_sqrt) == FALSE

\* s_sqrt * s_sqrt != s
not_perfect_square(s, s_sqrt) == s_sqrt * s_sqrt # s

\* dimSize(data): the whole call
dimSize ==
    /\ kernel = "dimSize"
    /\ mpc = "call"
    /\ LET s == Len(data)
           s_sqrt == floor_sqrt(s)
       IN  IF s < 4
           THEN /\ thrown' = invalid_argument("The dataset must be at least 2x2")
                /\ mpc' = "thrown"
                /\ ret' = ret
           ELSE IF s = 0 \/ bit_and(s, s - 1) # 0
           THEN /\ thrown' = invalid_argument("The dataset must be a power of 2")
                /\ mpc' = "thrown"
                /\ ret' = ret
           ELSE IF not_perfect_square(s, s_sqrt)
           THEN /\ thrown' =
                      invalid_argument("The dataset must be a perfect square")
                /\ mpc' = "thrown"
                /\ ret' = ret
           ELSE /\ ret' = log2(s_sqrt)
                /\ mpc' = "returned"
                /\ thrown' = thrown
    /\ UNCHANGED math
    /\ UNCHANGED sim
    /\ UNCHANGED <<kernel, data, expression, message, file_name, line,
                   function_name>>

\* class LightningException: err_msg is what what() returns
LightningException(err_msg) ==
    [type |-> "LightningException", what |-> err_msg]

Abort_line_first(msg, file, ln, fn) ==
    LightningException(<<"[Line:", ToString(ln), "][", file, "][Method:", fn,
                         "]: Error in PennyLane Lightning: ", msg>>)

\* Abort(message, file_name, line, function_name): the exception it throws;
\* the message is the sequence of the pieces inserted into the stringstream
Abort(msg, file, ln, fn) ==
    LightningException(<<"[", file, "][Line:", ToString(ln), "][Method:", fn,
                         "]: Error in PennyLane Lightning: ", msg>>)

\* PL_ABORT(message)
PL_ABORT(msg) == Abort(msg, file_name, line, function_name)

\* the places the macros are used at, and their arguments
Files == {"StateVector.hpp", "AdjointDiff.hpp"}
Lines == {7, 120}
Functions == {"applyOperation", "adjointJacobian"}
Messages == {"Invalid number of wires", "Gate not implemented"}
Expressions ==
    [text : {"wires.size() == 1", "!gate.empty()"}, value : BOOLEAN]

InitMacro ==
    /\ kernel \in {"PL_ABORT", "PL_ABORT_IF", "PL_ABORT_IF_NOT", "PL_ASSERT"}
    /\ file_name \in Files
    /\ line \in Lines
    /\ function_name \in Functions
    /\ IF kernel = "PL_ABORT" THEN expression = unused
       ELSE expression \in Expressions
    /\ IF kernel = "PL_ASSERT" THEN message = unused ELSE message \in Messages
    /\ mpc = "call"
    /\ ret = unused
    /\ data = unused
    /\ thrown = unused
    /\ SimIdle
    /\ MathIdle

macro_throws_unnegated ==
    CASE kernel = "PL_ABORT" -> PL_ABORT(message)
      [] kernel \in {"PL_ABORT_IF", "PL_ABORT_IF_NOT"} ->
            IF expression.value THEN PL_ABORT(message) ELSE unused
      [] kernel = "PL_ASSERT" ->
            IF expression.value
            THEN PL_ABORT("Assertion failed: " \o expression.text)
            ELSE unused

\* the expansion of the macro of the call: what it throws, or unused when it
\* throws nothing
macro_throws ==
    CASE kernel = "PL_ABORT" -> PL_ABORT(message)
      [] kernel = "PL_ABORT_IF" ->
            IF expression.value THEN PL_ABORT(message) ELSE unused
      [] kernel = "PL_ABORT_IF_NOT" ->
            IF ~expression.value THEN PL_ABORT(message) ELSE unused
      [] kernel = "PL_ASSERT" ->
            IF ~expression.value
            THEN PL_ABORT("Assertion failed: " \o expression.text)
            ELSE unused

\* a statement PL_ABORT(...), PL_ABORT_IF(...), PL_ABORT_IF_NOT(...) or
\* PL_ASSERT(...)
Macro ==
    /\ kernel \in {"PL_ABORT", "PL_ABORT_IF", "PL_ABORT_IF_NOT", "PL_ASSERT"}
    /\ mpc = "call"
    /\ IF macro_throws = unused
       THEN mpc' = "returned" /\ thrown' = thrown
       ELSE mpc' = "thrown" /\ thrown' = macro_throws
    /\ UNCHANGED math
    /\ UNCHANGED sim
    /\ UNCHANGED <<kernel, ret, data, expression, message, file_name, line,
                   function_name>>

RECURSIVE c_str(_)
\* err_msg.c_str(): the characters of the pieces, one after the other
c_str(err_msg) ==
    IF err_msg = <<>> THEN "" ELSE Head(err_msg) \o c_str(Tail(err_msg))

\* the handler of the exception calls what(): return err_msg.c_str()
What ==
    /\ kernel \in {"PL_ABORT", "PL_ABORT_IF", "PL_ABORT_IF_NOT", "PL_ASSERT"}
    /\ mpc = "thrown"
    /\ calls <= MaxCalls
    /\ ret' = c_str(thrown.what)
    /\ calls' = calls + 1
    /\ UNCHANGED sim
    /\ UNCHANGED <<data, expression, message, file_name, line, function_name,
                   thrown>>
    /\ UNCHANGED <<kernel, mpc, nthreads, ti, bnd, threads, v1, v2, result,
                   barrier, m, n, k, transpose, mat, v_in, v_out, m_left,
                   m_right, m_out, mat_t, stack, mat0, out0, touched,
                   accessed, peer>>

(***************************************************************************)
(* Amplitudes of the state vector.  The gates used here, at angles that    *)
(* are multiples of pi/6, keep every amplitude in the field generated by   *)
(* sqrt(2) and sqrt(3) over the dyadic rationals: a real number is         *)
(* <<a, b, c, d, e>>, standing for (a + b sqrt2 + c sqrt3 + d sqrt6)/2^e   *)
(* with e the least possible, so equal numbers are equal tuples; an        *)
(* amplitude is <<re, im>> of two such numbers.                            *)
(***************************************************************************)
RECURSIVE rnorm(_)
\* the representation with the least exponent
rnorm(x) ==
    IF x[5] > 0 /\ x[1] % 2 = 0 /\ x[2] % 2 = 0 /\ x[3] % 2 = 0 /\ x[4] % 2 = 0
    THEN rnorm(<<x[1] \div 2, x[2] \div 2, x[3] \div 2, x[4] \div 2, x[5] - 1>>)
    ELSE x

\* the numerators of x over the denominator 2^e, for e >= x[5]
rscale(x, e) ==
    LET f == 2 ^ (e - x[5]) IN <<f * x[1], f * x[2], f * x[3], f * x[4]>>

radd(x, y) ==
    LET e == IF x[5] >= y[5] THEN x[5] ELSE y[5]
        p == rscale(x, e)
        q == rscale(y, e)
    IN  rnorm(<<p[1] + q[1], p[2] + q[2], p[3] + q[3], p[4] + q[4], e>>)

rneg(x) == <<-x[1], -x[2], -x[3], -x[4], x[5]>>

rmul(x, y) ==
    rnorm(<<x[1] * y[1] + 2 * x[2] * y[2] + 3 * x[3] * y[3] + 6 * x[4] * y[4],
            x[1] * y[2] + x[2] * y[1] + 3 * (x[3] * y[4] + x[4] * y[3]),
            x[1] * y[3] + x[3] * y[1] + 2 * (x[2] * y[4] + x[4] * y[2]),
            x[1] * y[4] + x[4] * y[1] + x[2] * y[3] + x[3] * y[2],
            x[5] + y[5]>>)

\* the integer q as a real number
rint(q) == <<q, 0, 0, 0, 0>>

\* std::complex<T> over these numbers
zadd(a, b) == <<radd(a[1], b[1]), radd(a[2], b[2])>>
zneg(a) == <<rneg(a[1]), rneg(a[2])>>
zconj(a) == <<a[1], rneg(a[2])>>
zmul(a, b) ==
    <<radd(rmul(a[1], b[1]), rneg(rmul(a[2], b[2]))),
      radd(rmul(a[1], b[2]), rmul(a[2], b[1]))>>
\* the real number x as an amplitude, and i times it
zre(x) == <<x, rint(0)>>
zim(x) == <<rint(0), x>>
Z0 == zre(rint(0))
Z1 == zre(rint(1))

\* cos(u pi/12) for u in 0..6
cos12(u) ==
    CASE u = 0 -> <<1, 0, 0, 0, 0>>
      [] u = 1 -> <<0, 1, 0, 1, 2>>
      [] u = 2 -> <<0, 0, 1, 0, 1>>
      [] u = 3 -> <<0, 1, 0, 0, 1>>
      [] u = 4 -> <<1, 0, 0, 0, 1>>
      [] u = 5 -> <<0, -1, 0, 1, 2>>
      [] u = 6 -> <<0, 0, 0, 0, 0>>

\* cos and sin of u pi/12, for every integer u
cos(u) ==
    LET v == u % 24
        w == IF v > 12 THEN 24 - v ELSE v
    IN  IF w <= 6 THEN cos12(w) ELSE rneg(cos12(12 - w))
sin(u) == cos(u - 6)

(***************************************************************************)
(* State Vector Engine and Gate Kernel Library.                            *)
(***************************************************************************)
\* exp2(n): 1 << n
exp2(e) == 2 ^ e

\* a little-endian weight: qubit 0 is the least significant bit
maxDecimalForQubit_little(qubitIndex, qubits) == exp2(qubitIndex)

\* maxDecimalForQubit(qubitIndex, qubits): the weight of the qubit's bit in
\* the index of an amplitude, big-endian
maxDecimalForQubit(qubitIndex, qubits) == exp2(qubits - qubitIndex - 1)

(***************************************************************************)
(* maxDecimalForQubit on its own, called for the qubits of one register in *)
(* any order.  m is the number of qubits, n the qubitIndex of the last     *)
(* call, ret its value; touched collects <<qubitIndex, value>> of every    *)
(* call made so far.                                                       *)
(***************************************************************************)
\* the bound on the number of qubits of the register
MaxBits == 5

InitQubit ==
    /\ kernel = "maxDecimalForQubit"
    /\ m \in 1..MaxBits
    /\ n = unused
    /\ ret = unused
    /\ touched = {}
    /\ nthreads = 1
    /\ calls = 1
    /\ mpc = "call"
    /\ ti = 0
    /\ bnd = <<>>
    /\ threads = <<>>
    /\ v1 = unused /\ v2 = unused
    /\ result = unused /\ barrier = unlocked
    /\ k = unused /\ transpose = unused
    /\ mat = unused /\ v_in = unused /\ v_out = unused
    /\ m_left = unused /\ m_right = unused /\ m_out = unused
    /\ mat_t = unused /\ stack = <<>> /\ mat0 = unused
    /\ out0 = unused /\ accessed = FALSE
    /\ OthersIdle

\* maxDecimalForQubit(qubitIndex, qubits), with assert(qubitIndex < qubits)
QubitCall ==
    /\ kernel = "maxDecimalForQubit"
    /\ \E qubitIndex \in 0..(m - 1) :
          /\ n' = qubitIndex
          /\ ret' = maxDecimalForQubit(qubitIndex, m)
          /\ touched' = touched \cup {<<qubitIndex, ret'>>}
    /\ mpc' = "returned"
    /\ UNCHANGED others
    /\ UNCHANGED <<callIn, ti, bnd, threads, innerIn, result, barrier, m, k,
                   transpose, mvIn, v_out, mmIn, m_out, tState, out0,
                   accessed>>

\* the number of qubits of an amplitude buffer
num_qubits_of(st) == log2(Len(st))

\* the bit of wire w in the index idx
bit(idx, w, qubits) == (idx \div maxDecimalForQubit(w, qubits)) % 2

\* the bits of idx on the wires W, as a number (first wire most significant)
gathered(idx, W, qubits) ==
    LET acc[p \in 0..Len(W)] ==
            IF p = 0 THEN 0 ELSE 2 * acc[p - 1] + bit(idx, W[p], qubits)
    IN  acc[Len(W)]

\* idx with its bits on the wires W replaced by those of j
scattered(idx, W, j, qubits) ==
    LET acc[p \in 0..Len(W)] ==
            IF p = 0 THEN idx
            ELSE acc[p - 1]
                   + (((j \div exp2(Len(W) - p)) % 2) - bit(idx, W[p], qubits))
                       * maxDecimalForQubit(W[p], qubits)
    IN  acc[Len(W)]

\* the generic kernel: in each group of 2^k indices that agree outside W,
\* the amplitudes are multiplied from the left by the 2^k x 2^k row-major
\* matrix M
applyMatrix(M, W, st) ==
    LET qubits == num_qubits_of(st)
        dim == exp2(Len(W))
        out == [i \in 1..Len(st) |->
                   LET row == gathered(i - 1, W, qubits)
                       sum[j \in 0..dim] ==
                           IF j = 0 THEN Z0
                           ELSE zadd(sum[j - 1],
                                     zmul(M[row * dim + j],
                                          st[scattered(i - 1, W, j - 1, qubits) + 1]))
                   IN  sum[dim]]
    IN  IF M = <<>> \/ st = <<>> THEN st ELSE SubSeq(out, 1, Len(st))

ZI == zim(rint(1))
INVSQRT2 == <<0, 1, 0, 0, 1>>

\* the matrix of a rotation gate at the angle t pi/6 (half angle t pi/12)
rotation_matrix(name, t) ==
    LET c == zre(cos(t))
        js == zim(sin(t))
    IN  CASE name = "RX" -> <<c, zneg(js), zneg(js), c>>
          [] name = "RY" -> <<c, zre(rneg(sin(t))), zre(sin(t)), c>>
          [] name = "RZ" -> <<zadd(c, zneg(js)), Z0, Z0, zadd(c, js)>>

\* the matrix of a fixed gate
fixed_matrix(name) ==
    CASE name = "PauliX" -> <<Z0, Z1, Z1, Z0>>
      [] name = "PauliY" -> <<Z0, zneg(ZI), ZI, Z0>>
      [] name = "PauliZ" -> <<Z1, Z0, Z0, zneg(Z1)>>
      [] name = "Hadamard" ->
            <<zre(INVSQRT2), zre(INVSQRT2), zre(INVSQRT2), zre(rneg(INVSQRT2))>>
      [] name = "S" -> <<Z1, Z0, Z0, ZI>>
      [] name = "T" -> <<Z1, Z0, Z0, <<INVSQRT2, INVSQRT2>>>>
      [] name = "CNOT" ->
            <<Z1, Z0, Z0, Z0,
              Z0, Z1, Z0, Z0,
              Z0, Z0, Z0, Z1,
              Z0, Z0, Z1, Z0>>

RotationGates == {"RX", "RY", "RZ"}
FixedGates == {"PauliX", "PauliY", "PauliZ", "Hadamard", "S", "T", "CNOT"}

\* the number of wires of a gate: that of its family, or dimSize of the
\* matrix of an arbitrary-matrix gate
gate_wires(g) ==
    IF g.name = "Matrix" THEN log2(floor_sqrt(Len(g.matrix)))
    ELSE IF g.name = "CNOT" THEN 2 ELSE 1

conj_only(M) == [i \in 1..Len(M) |-> zconj(M[i])]

\* the conjugate transpose of a square row-major matrix
dagger(M) ==
    LET dim == floor_sqrt(Len(M))
    IN  [i \in 1..Len(M) |->
            zconj(M[((i - 1) % dim) * dim + ((i - 1) \div dim) + 1])]

inverse_param_kept(t) == t

\* the inverse of a rotation gate: its parameter negated
inverse_param(t) == -t

\* the matrix a gate applies: with the inverse flag the conjugate-transposed
\* form of a fixed or arbitrary-matrix gate, the negated parameter of a
\* rotation gate
gate_matrix(g, inverse) ==
    IF g.name \in RotationGates
    THEN rotation_matrix(g.name,
                         IF inverse THEN inverse_param(g.params[1])
                         ELSE g.params[1])
    ELSE LET M == IF g.name = "Matrix" THEN g.matrix ELSE fixed_matrix(g.name)
         IN  IF inverse THEN dagger(M) ELSE M

\* applyOperation(gate, wires, inverse, params): the buffer after it
applyOperation(g, inverse, st) == applyMatrix(gate_matrix(g, inverse), g.wires, st)

(***************************************************************************)
(* Observable Evaluation and the Adjoint-Differentiation Algorithm.        *)
(***************************************************************************)
\* a rotation gate at the angle t pi/6 on wire w, and a fixed gate on wires W
rotation(name, t, w) == [name |-> name, params |-> <<t>>, wires |-> <<w>>]
fixed(name, W) == [name |-> name, params |-> <<>>, wires |-> W]

\* createObsDS({name}, {{}}, {{w}}): an observable with one component
createObsDS(name, w) == <<[name |-> name, wires |-> <<w>>]>>

\* the observable applied to a state: its components, one after the other
applyObservable(obs, st) ==
    LET acc[c \in 0..Len(obs)] ==
            IF c = 0 THEN st
            ELSE LET before == acc[c - 1]
                 IN  IF before = <<>> THEN before
                     ELSE applyMatrix(fixed_matrix(obs[c].name), obs[c].wires,
                                      before)
    IN  acc[Len(obs)]

\* the conjugated inner product of two states
RECURSIVE braket_range(_, _, _, _)
\* the sum over the indices lo..hi, by halves (the arithmetic is exact, so the
\* order of the additions does not matter)
braket_range(a, b, lo, hi) ==
    IF lo = hi THEN zmul(zconj(a[lo]), b[lo])
    ELSE LET mid == (lo + hi) \div 2
         IN  zadd(braket_range(a, b, lo, mid), braket_range(a, b, mid + 1, hi))

braket(a, b) == braket_range(a, b, 1, Len(a))

\* the Hermitian generator of a rotation gate and its scaling constant: the
\* derivative of the gate is i * scaling * generator * gate
generator(name) ==
    CASE name = "RX" -> "PauliX"
      [] name = "RY" -> "PauliY"
      [] name = "RZ" -> "PauliZ"
scaling_positive(name) == <<1, 0, 0, 0, 1>>
scaling(name) == <<-1, 0, 0, 0, 1>>

has_params(g) == g.params # <<>>

\* the index, among the parameters of the circuit, of the parameter of the
\* gate at position p
param_index(ops, p) == Cardinality({q \in 1..(p - 1) : has_params(ops[q])})

always_trainable(ops, p, tp) == has_params(ops[p])

\* the gate at position p is parameterized and its parameter is in the
\* caller's trainable set
is_trainable(ops, p, tp) == has_params(ops[p]) /\ param_index(ops, p) \in tp

column_first(tp, q) == 0

\* the column of the Jacobian of a trainable parameter: its rank in the
\* trainable set
column(tp, q) == Cardinality({x \in tp : x < q})

\* the params of the tests: M_PI, M_PI_2, M_PI / 3, in units of pi/6
param == <<6, 3, 2>>

\* |0...0>: cdata[0] = 1
cdata(qubits) == [i \in 1..exp2(qubits) |-> IF i = 1 THEN Z1 ELSE Z0]

\* the circuits adjointJacobian is run on: a rotation of the same family on
\* every wire, at the params of the tests in turn, with or without a fixed
\* gate before or after them
Circuits(qubits) ==
    LET rots(name, shift) ==
            [w \in 1..qubits |->
                rotation(name, param[((w - 1 + shift) % 3) + 1], w - 1)]
        fixedGates == {fixed("Hadamard", <<0>>)}
                        \cup IF qubits >= 2 THEN {fixed("CNOT", <<0, 1>>)}
                             ELSE {}
    IN  UNION {{rots(name, shift)}
                 \cup {<<f>> \o rots(name, shift) : f \in fixedGates}
                 \cup {rots(name, shift) \o <<f>> : f \in fixedGates}
               : name \in {"RX", "RY"}, shift \in 0..2}

\* the trainable sets: every parameter, or every parameter but one
TrainableSets(qubits) ==
    {0..(qubits - 1)}
        \cup {(0..(qubits - 1)) \ {q} : q \in 1..(qubits - 1)}

InitAdjoint ==
    /\ kernel = "adjointJacobian"
    /\ \E qubits \in 1..MaxQubits :
          /\ psi = cdata(qubits)
          /\ operations \in Circuits(qubits)
          /\ trainableParams \in TrainableSets(qubits)
          /\ \E name \in {"PauliZ", "PauliX"} :
                observables = [w \in 1..qubits |-> createObsDS(name, w - 1)]
          /\ jacobian = [j \in 1..(qubits * Cardinality(trainableParams)) |->
                            rint(0)]
    /\ psi0 = psi
    /\ gate = unused
    /\ ket = unused /\ bras = unused /\ op_idx = 0
    /\ fwd = unused /\ undone = unused
    /\ mpc = "call"
    /\ ret = unused
    /\ data = unused
    /\ expression = unused /\ message = unused
    /\ file_name = unused /\ line = unused /\ function_name = unused
    /\ thrown = unused
    /\ MathIdle

num_params == Cardinality(trainableParams)

\* the utilities' own variables
util ==
    <<data, expression, message, file_name, line, function_name, thrown>>

\* the call: the ket starts as a copy of the initial state
AdjCall ==
    /\ kernel = "adjointJacobian"
    /\ mpc = "call"
    /\ ket' = psi
    /\ fwd' = <<psi>>
    /\ op_idx' = 0
    /\ mpc' = "forward"
    /\ UNCHANGED math
    /\ UNCHANGED util
    /\ UNCHANGED <<kernel, ret, psi, gate, operations, observables,
                   trainableParams, jacobian, bras, psi0, undone>>

\* step 1, one gate of the forward pass: the gates are applied in order
AdjForward ==
    /\ kernel = "adjointJacobian"
    /\ mpc = "forward"
    /\ op_idx < Len(operations)
    /\ LET after == applyOperation(operations[op_idx + 1], FALSE, ket)
       IN  /\ ket' = after
           /\ fwd' = Append(fwd, after)
    /\ op_idx' = op_idx + 1
    /\ UNCHANGED math
    /\ UNCHANGED util
    /\ UNCHANGED <<kernel, mpc, ret, psi, gate, operations, observables,
                   trainableParams, jacobian, bras, psi0, undone>>

\* step 2: each bra is a copy of the final state with its observable applied
AdjBras ==
    /\ kernel = "adjointJacobian"
    /\ mpc = "forward"
    /\ op_idx = Len(operations)
    /\ bras' = [i \in 1..Len(observables) |->
                   applyObservable(observables[i], ket)]
    /\ undone' = [p \in 1..Len(operations) |-> 0]
    /\ mpc' = "sweep"
    /\ UNCHANGED math
    /\ UNCHANGED util
    /\ UNCHANGED <<kernel, ret, psi, gate, operations, observables,
                   trainableParams, jacobian, ket, op_idx, psi0, fwd>>

\* 2 * scaling * Re(<bra| i * Generator |ket>), the ket and the bra being as
\* they are before the gate g is un-applied
contribution(g, bra, scratch) ==
    LET generated == applyMatrix(fixed_matrix(generator(g.name)), g.wires,
                                 scratch)
        z == IF generated = <<>> THEN Z0 ELSE braket(bra, generated)
    IN  IF z = Z0 THEN rint(0)
        ELSE rmul(rint(2), rmul(scaling(g.name), rneg(z[2])))

unapply_skipped(g, st) == st

\* the gate applied with the inverse flag
unapply(g, st) == applyOperation(g, TRUE, st)

\* step 3, for the gate at position op_idx: a trainable gate adds its
\* generator's contribution to its column of the Jacobian, for every
\* observable; every gate is un-applied to the ket and to every bra
AdjStep ==
    /\ kernel = "adjointJacobian"
    /\ mpc = "sweep"
    /\ op_idx >= 1
    /\ LET g == operations[op_idx]
           j == column(trainableParams, param_index(operations, op_idx))
       IN  /\ jacobian' =
                 IF is_trainable(operations, op_idx, trainableParams)
                 THEN [entry \in 1..Len(jacobian) |->
                          IF (entry - 1) % num_params = j
                          THEN radd(jacobian[entry],
                                    contribution(
                                        g,
                                        bras[((entry - 1) \div num_params) + 1],
                                        ket))
                          ELSE jacobian[entry]]
                 ELSE jacobian
           /\ ket' = unapply(g, ket)
           /\ bras' = [i \in 1..Len(bras) |-> unapply(g, bras[i])]
    /\ undone' = [undone EXCEPT ![op_idx] = @ + 1]
    /\ op_idx' = op_idx - 1
    /\ UNCHANGED math
    /\ UNCHANGED util
    /\ UNCHANGED <<kernel, mpc, ret, psi, gate, operations, observables,
                   trainableParams, psi0, fwd>>

\* step 4: all gates have been processed
AdjReturn ==
    /\ kernel = "adjointJacobian"
    /\ mpc = "sweep"
    /\ op_idx = 0
    /\ mpc' = "returned"
    /\ UNCHANGED math
    /\ UNCHANGED util
    /\ UNCHANGED sim
    /\ UNCHANGED <<kernel, ret>>

(***************************************************************************)
(* The sections of TEST_CASE("AdjointJacobian::adjointJacobian"): each     *)
(* builds the arguments, calls adjointJacobian and reads entries of the    *)
(* Jacobian back in its CHECKs.  ti is the loop counter of the CHECKs and  *)
(* ret the outcomes of the CHECKs made so far.                             *)
(***************************************************************************)
\* createObsDS({"PauliZ", "PauliZ", "PauliZ"}, {{}}, {{0}, {1}, {2}}): one
\* observable, the tensor product of a component per wire
createObsDS_tensor(name, qubits) ==
    [w \in 1..qubits |-> [name |-> name, wires |-> <<w - 1>>]]

\* the arguments of the sections: num_qubits, the observables, the gates and
\* num_params
TestSections ==
    {[num_qubits |-> 1, obs |-> <<createObsDS("PauliZ", 0)>>,
      ops |-> <<rotation("RX", param[a], 0)>>, num_params |-> 1]
        : a \in 1..3}
    \cup
    {[num_qubits |-> 1, obs |-> <<createObsDS("PauliX", 0)>>,
      ops |-> <<rotation("RY", param[a], 0)>>, num_params |-> 1]
        : a \in 1..3}
    \cup
    {[num_qubits |-> 3,
      obs |-> [w \in 1..3 |-> createObsDS("PauliZ", w - 1)],
      ops |-> <<rotation("RX", param[1], 0)>>, num_params |-> 1],
     [num_qubits |-> 3,
      obs |-> [w \in 1..3 |-> createObsDS("PauliZ", w - 1)],
      ops |-> [w \in 1..3 |-> rotation("RX", param[w], w - 1)],
      num_params |-> 3],
     [num_qubits |-> 3,
      obs |-> <<createObsDS_tensor("PauliZ", 3)>>,
      ops |-> [w \in 1..3 |-> rotation("RX", param[w], w - 1)],
      num_params |-> 3]}

\* the start of a section: the gates, the trainable parameters and the
\* observables are those its call passes; the buffers are not yet allocated
InitTest ==
    /\ kernel = "adjointJacobian"
    /\ \E section \in TestSections :
          /\ operations = section.ops
          /\ trainableParams = 0..(section.num_params - 1)
          /\ observables = section.obs
    /\ jacobian = unused
    /\ psi = unused /\ psi0 = unused
    /\ gate = unused
    /\ ket = unused /\ bras = unused /\ op_idx = 0
    /\ fwd = unused /\ undone = unused
    /\ mpc = "jacobian"
    /\ ret = <<>>
    /\ data = unused
    /\ expression = unused /\ message = unused
    /\ file_name = unused /\ line = unused /\ function_name = unused
    /\ thrown = unused
    /\ MathIdle

\* the section the test is in
test_section ==
    CHOOSE section \in TestSections :
        section.ops = operations /\ section.obs = observables

\* the statements before the call, one per step:
\* std::vector<double> jacobian(num_obs * num_params, 0.0);
\* std::vector<std::complex<double>> cdata(0b1 << num_qubits), viewed by psi;
\* cdata[0] = std::complex<double>{1, 0}
TestSetup ==
    /\ kernel = "adjointJacobian"
    /\ mpc \in {"jacobian", "cdata", "cdata[0]"}
    /\ CASE mpc = "jacobian" ->
              /\ jacobian' = [j \in 1..(Len(test_section.obs)
                                           * test_section.num_params) |->
                                 rint(0)]
              /\ mpc' = "cdata"
              /\ UNCHANGED <<psi, psi0>>
         [] mpc = "cdata" ->
              /\ psi' = [i \in 1..exp2(test_section.num_qubits) |-> Z0]
              /\ mpc' = "cdata[0]"
              /\ UNCHANGED <<jacobian, psi0>>
         [] mpc = "cdata[0]" ->
              /\ psi' = [psi EXCEPT ![1] = Z1]
              /\ psi0' = psi'
              /\ mpc' = "call"
              /\ UNCHANGED jacobian
    /\ UNCHANGED math
    /\ UNCHANGED util
    /\ UNCHANGED <<kernel, ret, gate, operations, observables,
                   trainableParams, ket, bras, op_idx, fwd, undone>>

\* the section "Multiple RX gradient, tensor expval": the only one whose
\* observable has more than one component
tensor_expval == Len(observables) = 1 /\ Len(observables[1]) > 1

\* the number of CHECKs of the section: for (i = 0; i < num_params; i++) in
\* the tensor section, one CHECK in the others
num_checks == IF tensor_expval THEN num_params ELSE 1

\* the index of the entry the CHECK number i reads: jacobian[i * num_params
\* + i] in the tensor section, jacobian[0] (jacobian.front()) in the others
checked_index(i) == IF tensor_expval THEN i * num_params + i ELSE 0

\* the value the CHECK number i compares the entry with: cos(p) in the RY
\* section, -sin(p) of the rotation the entry belongs to in the others
expected_entry(i) ==
    LET g == operations[IF tensor_expval THEN i + 1 ELSE 1]
    IN  IF g.name = "RY" THEN cos(2 * g.params[1])
        ELSE rneg(sin(2 * g.params[1]))

\* one CHECK(... == Approx(jacobian[...])), or the end of the section after
\* the last one.  An index past the end of the vector is undefined
\* behaviour: the read gives any value, so the CHECK passes or fails, or the
\* process faults.
TestCheck ==
    /\ kernel = "adjointJacobian"
    /\ mpc = "returned"
    /\ IF ti >= num_checks
       THEN /\ mpc' = "done"
            /\ UNCHANGED <<ret, ti>>
       ELSE IF checked_index(ti) < Len(jacobian)
       THEN /\ ret' = Append(ret,
                             IF jacobian[checked_index(ti) + 1]
                                    = expected_entry(ti)
                             THEN "passed" ELSE "failed")
            /\ ti' = ti + 1
            /\ mpc' = mpc
       ELSE \/ /\ mpc' = "crashed"
               /\ UNCHANGED <<ret, ti>>
            \/ /\ \E outcome \in {"passed", "failed"} :
                      ret' = Append(ret, outcome)
               /\ ti' = ti + 1
               /\ mpc' = mpc
    /\ UNCHANGED util
    /\ UNCHANGED sim
    /\ UNCHANGED <<kernel, nthreads, calls, bnd, threads, v1, v2, result,
                   barrier, m, n, k, transpose, mat, v_in, v_out, m_left,
                   m_right, m_out, mat_t, stack, mat0, out0, touched,
                   accessed, peer>>

(***************************************************************************)
(* A gate applied and then applied again with the inverse flag.            *)
(***************************************************************************)
\* arbitrary-matrix gates: unitary matrices that are neither symmetric nor
\* Hermitian, on one wire ([[0, i], [1, 0]] and S * Hadamard) and on two
\* wires (a cyclic shift of the basis states with a phase i)
Matrices ==
    {<<Z0, ZI, Z1, Z0>>,
     <<zre(INVSQRT2), zre(INVSQRT2), zim(INVSQRT2), zim(rneg(INVSQRT2))>>,
     <<Z0, Z0, Z0, ZI,
       Z1, Z0, Z0, Z0,
       Z0, Z1, Z0, Z0,
       Z0, Z0, Z1, Z0>>}

\* the rotation angles, in units of pi/6: those of the tests, and pi/6
Angles == {param[a] : a \in 1..3} \cup {1}

\* the wire selections of count distinct wires among qubits wires, in every order
WireSelections(count, qubits) ==
    IF count = 1 THEN {<<w1>> : w1 \in 0..(qubits - 1)}
    ELSE {sel \in (0..(qubits - 1)) \X (0..(qubits - 1)) : sel[1] # sel[2]}

\* the valid gates on a register of qubits wires: every named gate and every
\* arbitrary-matrix gate, on every wire selection of its size
Gates(qubits) ==
    LET named == {[name |-> nm, params |-> <<>>] : nm \in FixedGates}
                   \cup {[name |-> nm, params |-> <<a>>] :
                            nm \in RotationGates, a \in Angles}
        matrix == {[name |-> "Matrix", params |-> <<>>, matrix |-> M] :
                      M \in Matrices}
    IN  UNION {{[f \in (DOMAIN proto) \cup {"wires"} |->
                    IF f = "wires" THEN W ELSE proto[f]]
                  : W \in WireSelections(gate_wires(proto), qubits)}
               : proto \in {h \in named \cup matrix : gate_wires(h) <= qubits}}

\* the amplitude buffers: |0...0>, and a buffer of pairwise distinct
\* amplitudes
Buffers(qubits) ==
    {cdata(qubits),
     [a \in 1..exp2(qubits) |-> <<rint(a), rint(2 * a - 3)>>]}

InitGate ==
    /\ kernel = "applyOperation"
    /\ \E qubits \in 1..MaxQubits :
          /\ psi \in Buffers(qubits)
          /\ gate \in Gates(qubits)
    /\ psi0 = psi
    /\ fwd = <<psi>>
    /\ operations = unused /\ observables = unused
    /\ trainableParams = unused /\ jacobian = unused
    /\ ket = unused /\ bras = unused /\ op_idx = 0
    /\ undone = unused
    /\ mpc = "call"
    /\ ret = unused
    /\ data = unused
    /\ expression = unused /\ message = unused
    /\ file_name = unused /\ line = unused /\ function_name = unused
    /\ thrown = unused
    /\ MathIdle

\* applyOperation(gate, wires, inverse = false, params)
GateApply ==
    /\ kernel = "applyOperation"
    /\ mpc = "call"
    /\ psi' = applyOperation(gate, FALSE, psi)
    /\ fwd' = Append(fwd, psi')
    /\ mpc' = "applied"
    /\ UNCHANGED math
    /\ UNCHANGED util
    /\ UNCHANGED <<kernel, ret, gate, operations, observables,
                   trainableParams, jacobian, ket, bras, op_idx, psi0,
                   undone>>

\* applyOperation(gate, wires, inverse = true, params)
GateInverse ==
    /\ kernel = "applyOperation"
    /\ mpc = "applied"
    /\ psi' = applyOperation(gate, TRUE, psi)
    /\ mpc' = "returned"
    /\ UNCHANGED math
    /\ UNCHANGED util
    /\ UNCHANGED <<kernel, ret, gate, operations, observables,
                   trainableParams, jacobian, ket, bras, op_idx, psi0, fwd,
                   undone>>

(***************************************************************************)
(* Specifications.                                                         *)
(***************************************************************************)
NextInner ==
    \/ InnerCall
    \/ Spawn
    \/ \E w \in DOMAIN threads : InnerLoop(w)
    \/ \E w \in DOMAIN threads : InnerLock(w)
    \/ \E w \in DOMAIN threads : InnerLoad(w)
    \/ \E w \in DOMAIN threads : InnerStore(w)
    \/ Join
    \/ Return

SpecInner == InitInner /\ [][NextInner]_vars

NextPartition == PartitionCall

SpecPartition == InitPartition /\ [][NextPartition]_vars

NextConcurrent ==
    \/ NextInner
    \/ PeerCall
    \/ \E w \in 1..MaxThreads : PeerLoop(w)
    \/ \E w \in 1..MaxThreads : PeerLock(w)
    \/ \E w \in 1..MaxThreads : PeerStore(w)
    \/ PeerReturn

SpecConcurrent == InitConcurrent /\ [][NextConcurrent]_vars

NextMat ==
    \/ MatCall
    \/ Spawn
    \/ \E w \in DOMAIN threads : MVStep(w)
    \/ \E w \in DOMAIN threads : MMStep(w)
    \/ Join
    \/ Return
    \/ CallAgain

SpecMat == InitMat /\ [][NextMat]_vars

NextT ==
    \/ TransposeCall
    \/ CFSplitRows
    \/ CFSplitCols
    \/ CFBlock
    \/ CFReturn
    \/ Return
    \/ TransposeBack

SpecT == InitT /\ [][NextT]_vars

\* a call of one of the kernels that spawn workers
InitThreaded == InitInner \/ InitMat

NextThreaded ==
    \/ InnerCall
    \/ MatCall
    \/ Spawn
    \/ \E w \in DOMAIN threads : InnerLoop(w)
    \/ \E w \in DOMAIN threads : InnerLock(w)
    \/ \E w \in DOMAIN threads : InnerLoad(w)
    \/ \E w \in DOMAIN threads : InnerStore(w)
    \/ \E w \in DOMAIN threads : MVStep(w)
    \/ \E w \in DOMAIN threads : MMStep(w)
    \/ Join
    \/ Return
    \/ CallAgain

SpecThreaded == InitThreaded /\ [][NextThreaded]_vars

\* the operating system runs every thread that can take a step: whenever
\* some step of the call is possible, a step is eventually taken
FairSpec == SpecThreaded /\ WF_vars(NextThreaded)

\* a call of dimSize, or a statement that is one of the error macros
InitUtil == InitDimSize \/ InitMacro

NextUtil ==
    \/ dimSize
    \/ Macro
    \/ What

SpecUtil == InitUtil /\ [][NextUtil]_vars

NextAdjoint ==
    \/ AdjCall
    \/ AdjForward
    \/ AdjBras
    \/ AdjStep
    \/ AdjReturn

SpecAdjoint == InitAdjoint /\ [][NextAdjoint]_vars

NextGate ==
    \/ GateApply
    \/ GateInverse

SpecGate == InitGate /\ [][NextGate]_vars

NextQubit == QubitCall

SpecQubit == InitQubit /\ [][NextQubit]_vars

NextTest ==
    \/ TestSetup
    \/ NextAdjoint
    \/ TestCheck

SpecTest == InitTest /\ [][NextTest]_vars

(***************************************************************************)
(* Reference values the claims compare the kernels with.                   *)
(***************************************************************************)
\* the sum of a sequence of integers
Sigma(f) ==
    LET sum[j \in 0..Len(f)] == IF j = 0 THEN 0 ELSE sum[j - 1] + f[j]
    IN  sum[Len(f)]

\* sum over i of a[i] * b[i]
DotU(a, b) ==
    <<Sigma([j \in 1..Len(a) |-> a[j][1] * b[j][1] - a[j][2] * b[j][2]]),
      Sigma([j \in 1..Len(a) |-> a[j][1] * b[j][2] + a[j][2] * b[j][1]])>>

\* sum over i of conj(a[i]) * b[i]
DotC(a, b) ==
    <<Sigma([j \in 1..Len(a) |-> a[j][1] * b[j][1] + a[j][2] * b[j][2]]),
      Sigma([j \in 1..Len(a) |-> a[j][1] * b[j][2] - a[j][2] * b[j][1]])>>

\* sum over i of |a[i]|^2
SumSqMag(a) == Sigma([j \in 1..Len(a) |-> a[j][1] * a[j][1] + a[j][2] * a[j][2]])

\* a complex number times an integer
cscale(q, a) == <<q * real(a), q * imag(a)>>

\* row r of mat times v_in: the sum over c of mat[r * n + c] * v_in[c]
MatVecRow(r) ==
    <<Sigma([c \in 1..n |-> real(mat[r * n + c]) * real(v_in[c])
                              - imag(mat[r * n + c]) * imag(v_in[c])]),
      Sigma([c \in 1..n |-> real(mat[r * n + c]) * imag(v_in[c])
                              + imag(mat[r * n + c]) * real(v_in[c])])>>

\* entry (r, c) of m_left (m x k) times m_right (k x n), both row-major:
\* the sum over b of m_left[r * k + b] * m_right[b * n + c]
MatMatCell(r, c) ==
    <<Sigma([b \in 1..k |->
                real(m_left[r * k + b]) * real(m_right[(b - 1) * n + c + 1])
                    - imag(m_left[r * k + b]) * imag(m_right[(b - 1) * n + c + 1])]),
      Sigma([b \in 1..k |->
                real(m_left[r * k + b]) * imag(m_right[(b - 1) * n + c + 1])
                    + imag(m_left[r * k + b]) * real(m_right[(b - 1) * n + c + 1])])>>

IsInner == kernel \in {"innerProd", "innerProdC"}
Threaded == IsInner /\ data_size <= crossover
Returned == mpc = "returned"

(***************************************************************************)
(* Claims.                                                                 *)
(***************************************************************************)

\* C1: on the threaded path of innerProd (data_size <= crossover,
\* nthreads >= 1), whatever the interleaving of the workers, the value
\* returned is the sum over i of v1[i] * v2[i], and the accumulator still
\* holds that value after the return: no partial sum is lost, counted twice
\* or added after the result was read.
C1_ThreadedInnerProd ==
    (kernel = "innerProd" /\ Threaded /\ Returned)
        => (ret = DotU(v1, v2) /\ result = ret)

\* two workers, each with a non-zero partial sum, and the call has returned
C1_Witness ==
    /\ kernel = "innerProd" /\ Threaded /\ Returned
    /\ Len(threads) = 2
    /\ threads[1].s # ZERO /\ threads[2].s # ZERO
    /\ ret = DotU(v1, v2) /\ ret # ZERO

\* C2: innerProdC returns the sum over i of conj(v1[i]) * v2[i] (first
\* operand conjugated, second not) on the threaded and on the sequential
\* path; innerProd returns the sum of v1[i] * v2[i], conjugating neither.
C2_ConjugatesFirstOnly ==
    Returned =>
        /\ kernel = "innerProdC" => ret = DotC(v1, v2)
        /\ kernel = "innerProd" => ret = DotU(v1, v2)

\* innerProdC took the sequential path on vectors where conjugating the
\* first operand, the second, or none give three different values
C2_Witness ==
    /\ kernel = "innerProdC" /\ ~Threaded /\ Returned
    /\ ret = DotC(v1, v2)
    /\ ret # DotU(v1, v2) /\ ret # DotC(v2, v1)

\* C3 as stated: innerProd(v, v) is the sum of the squared magnitudes of v.
C3_InnerProdSelfIsNormSq ==
    (kernel = "innerProd" /\ Returned /\ v1 = v2)
        => ret = <<SumSqMag(v1), 0>>

\* C3 as amended: innerProdC(v, v) is the sum of the squared magnitudes of
\* v, real and non-negative; innerProd(v, v), which conjugates nothing, is
\* the sum of the squares v[i]^2, and is the sum of the squared magnitudes
\* exactly when every entry of v is real.
C3_SelfProducts ==
    (IsInner /\ Returned /\ v1 = v2) =>
        /\ kernel = "innerProdC" =>
              (ret = <<SumSqMag(v1), 0>> /\ real(ret) >= 0)
        /\ kernel = "innerProd" =>
              /\ ret = <<Sigma([j \in 1..Len(v1) |->
                               v1[j][1] * v1[j][1] - v1[j][2] * v1[j][2]]),
                         Sigma([j \in 1..Len(v1) |-> 2 * v1[j][1] * v1[j][2]])>>
              /\ (ret = <<SumSqMag(v1), 0>>)
                    <=> (\A j \in 1..Len(v1) : imag(v1[j]) = 0)

\* innerProdC(v, v) has returned for a v with a non-real entry
C3_Witness ==
    /\ kernel = "innerProdC" /\ Returned /\ v1 = v2
    /\ \E j \in 1..Len(v1) : imag(v1[j]) # 0
    /\ ret = <<SumSqMag(v1), 0>> /\ real(ret) > 0

\* C4: matrixVecProd (non-null v_out, transpose = false) accumulates and
\* never resets: when it returns, every v_out[r] is its value before the call
\* plus the sum over c of mat[r * n + c] * v_in[c]; so the first call on a
\* pre-zeroed buffer leaves the matrix-vector product and a second call on
\* the same buffer leaves twice the product.
C4_MatrixVecProdAccumulates ==
    (kernel = "matrixVecProd" /\ Returned /\ v_out # nullptr /\ ~transpose)
        => \A r \in 0..(m - 1) :
              /\ v_out[r + 1] = cadd(out0[r + 1], MatVecRow(r))
              /\ v_out[r + 1] = cscale(calls, MatVecRow(r))

\* a second call of matrixVecProd, two workers with a row each, has returned
\* with a non-zero result
C4_Witness ==
    /\ kernel = "matrixVecProd" /\ Returned /\ v_out # nullptr /\ ~transpose
    /\ calls = 2 /\ m = 2 /\ n = 2 /\ Len(threads) = 2
    /\ \A r \in 0..(m - 1) :
          /\ out0[r + 1] # ZERO
          /\ v_out[r + 1] = cscale(2, MatVecRow(r))

\* C5: matrixMatProd with transpose = false and a pre-zeroed m_out leaves in
\* m_out the product of m_left (m x k) and m_right (k x n): every
\* m_out[r * n + c] is the sum over b of m_left[r * k + b] * m_right[b * n + c].
C5_MatrixMatProdIsProduct ==
    (kernel = "matrixMatProd" /\ Returned /\ m_out # nullptr /\ ~transpose)
        => \A r \in 0..(m - 1), c \in 0..(n - 1) :
              m_out[r * n + c + 1] = MatMatCell(r, c)

\* C6: with a null output pointer matrixVecProd and matrixMatProd are silent
\* no-ops: the call goes straight to its return, no fault, no worker is ever
\* spawned and no buffer is read or written.
C6_NullOutputIsNoOp ==
    (kernel \in {"matrixVecProd", "matrixMatProd"} /\ out_ptr = nullptr)
        => /\ mpc \in {"call", "return", "returned"}
           /\ threads = <<>>
           /\ bnd = <<>>
           /\ ~accessed
           /\ touched = unused

\* matrixMatProd has returned from a call with a null m_out
C6_Witness ==
    /\ kernel = "matrixMatProd" /\ m_out = nullptr /\ Returned
    /\ threads = <<>> /\ ~accessed

\* the output of the naive double loop: for r, for s, t[s * m + r] = mat[r * n + s]
NaiveTranspose ==
    [j \in 1..(n * m) |-> mat[((j - 1) % m) * n + ((j - 1) \div m) + 1]]

\* C7: for every m, n >= 0 (sizes above the block threshold of 16 in one or
\* both dimensions included), when Transpose returns, mat_t[s * m + r] =
\* mat[r * n + s] for every r < m and s < n, every cell of mat_t was written
\* exactly once, mat_t is what the naive double loop gives, and mat is as it
\* was.
C7_TransposeIsNaive ==
    (kernel = "Transpose" /\ mpc \in {"return", "returned"}) =>
        /\ \A r \in 0..(m - 1), s \in 0..(n - 1) :
              mat_t[s * m + r + 1] = mat[r * n + s + 1]
        /\ \A j \in 1..(n * m) : touched[j] = 1
        /\ mat_t = NaiveTranspose
        /\ calls = 1 => mat = mat0

\* Transpose has returned for a matrix with more than 16 rows and more than
\* 16 columns, not square
C7_Witness ==
    /\ kernel = "Transpose" /\ Returned /\ calls = 1
    /\ m > BLOCK_THRESHOLD /\ n > BLOCK_THRESHOLD /\ m # n
    /\ mat_t = NaiveTranspose
    /\ mat_t # mat

\* C8: Transpose(mat, t, m, n) followed by Transpose(t, back, n, m) gives a
\* matrix equal, entry for entry, to the original one, for all m and n.
C8_TransposeTwiceIsIdentity ==
    (kernel = "Transpose" /\ calls = 2 /\ mpc \in {"return", "returned"})
        => mat_t = mat0

\* the second Transpose has returned, for an original matrix with one
\* dimension above the block threshold and the other below it
C8_Witness ==
    /\ kernel = "Transpose" /\ calls = 2 /\ Returned
    /\ n > BLOCK_THRESHOLD /\ m > 1 /\ m < BLOCK_THRESHOLD
    /\ mat_t = mat0
    /\ mat # mat0

\* the sum of the partial sums s of the workers
SumOfWorkers ==
    <<Sigma([w \in 1..Len(threads) |-> real(threads[w].s)]),
      Sigma([w \in 1..Len(threads) |-> imag(threads[w].s)])>>

\* C9: fork-join.  innerProd, innerProdC, matrixVecProd and matrixMatProd
\* never return while a worker they spawned is running: when the call is at
\* its return every spawned worker has finished, has gone through its whole
\* range, and its writes have happened (the accumulator holds the partial sum
\* of every worker; every cell of the output buffer has had all its updates).
C9_ForkJoin ==
    (kernel \in {"innerProd", "innerProdC", "matrixVecProd", "matrixMatProd"}
        /\ mpc \in {"return", "returned"}) =>
        /\ \A w \in DOMAIN threads :
              /\ threads[w].pc = "done"
              /\ IF IsInner THEN threads[w].i = threads[w].r
                 ELSE threads[w].r = threads[w].right
        /\ (IsInner /\ Threaded) =>
              (Len(threads) = nthreads /\ result = SumOfWorkers)
        /\ (kernel = "matrixVecProd" /\ v_out # nullptr) =>
              /\ Len(threads) = nthreads
              /\ \A r \in 1..m : touched[r] = n
        /\ (kernel = "matrixMatProd" /\ m_out # nullptr) =>
              /\ Len(threads) = nthreads
              /\ \A j \in 1..(m * n) : touched[j] = 1

\* matrixMatProd has returned after two workers, a row each, have finished
C9_Witness ==
    /\ kernel = "matrixMatProd" /\ Returned /\ m_out # nullptr
    /\ Len(threads) = 2
    /\ \A w \in 1..2 :
          /\ threads[w].pc = "done"
          /\ threads[w].left < threads[w].right
    /\ \A j \in 1..(m * n) : touched[j] = 1

\* C10: every kernel call with nthreads >= 1 runs to completion: under fair
\* scheduling of the workers, innerProd, innerProdC, matrixVecProd and
\* matrixMatProd eventually return.
C10_RunsToCompletion == <>Returned

\* the data size is 4^e for some e >= 1
RECURSIVE IsPowerOfFour(_)
IsPowerOfFour(s) ==
    s = 4 \/ (s > 4 /\ s % 4 = 0 /\ IsPowerOfFour(s \div 4))

\* C11: dimSize accepts exactly the sizes s = 4^e with e >= 1 and returns e
\* for them; for every other size (s < 4, s not a power of two, s a power of
\* two that is not a perfect square, such as 8 or 32) it raises a validation
\* error and returns no value.
C11_DimSizeAcceptsPowersOfFour ==
    (kernel = "dimSize" /\ mpc # "call") =>
        IF IsPowerOfFour(Len(data))
        THEN /\ mpc = "returned"
             /\ thrown = unused
             /\ ret >= 1 /\ 4 ^ ret = Len(data)
        ELSE /\ mpc = "thrown"
             /\ thrown.type = "std::invalid_argument"
             /\ ret = unused

\* dimSize has rejected a vector of 32 elements: a power of two that is not
\* a perfect square
C11_Witness ==
    /\ kernel = "dimSize" /\ mpc = "thrown"
    /\ Len(data) = 32
    /\ thrown = invalid_argument("The dataset must be a perfect square")
    /\ ret = unused

\* the place in the source that raised the error of the call
raised_at ==
    IF kernel = "dimSize"
    THEN [file |-> "Util.hpp", function |-> "dimSize",
          line |-> IF Len(data) < 4 THEN 292
                   ELSE IF bit_and(Len(data), Len(data) - 1) # 0 THEN 294
                   ELSE 296]
    ELSE [file |-> file_name, function |-> function_name, line |-> line]

\* the message of the exception e names the file, the line and the function
carries_location(e, at) ==
    /\ \E i \in DOMAIN e.what : e.what[i] = at.file
    /\ \E i \in DOMAIN e.what : e.what[i] = ToString(at.line)
    /\ \E i \in DOMAIN e.what : e.what[i] = at.function

\* C12: every validation failure raised by the utilities, the three
\* failures of dimSize included, aborts the operation with an error whose
\* message carries the source location (file, line and function), as the
\* errors raised through PL_ABORT, PL_ABORT_IF, PL_ABORT_IF_NOT and PL_ASSERT
\* do.
C12_ErrorsCarryLocation ==
    mpc = "thrown" => carries_location(thrown, raised_at)

\* C13: for a 1-qubit circuit started in |0> with a single trainable
\* rotation gate at theta in {pi, pi/2, pi/3}, adjointJacobian leaves in the
\* single Jacobian entry the derivative of the expectation value: -sin(theta)
\* for RX(theta) with the observable PauliZ, cos(theta) for RY(theta) with
\* the observable PauliX.
C13_SingleRotationGradient ==
    \A t \in {param[i] : i \in 1..3} :
        (kernel = "adjointJacobian" /\ Returned /\ psi = cdata(1)
            /\ trainableParams = {0}) =>
            /\ (operations = <<rotation("RX", t, 0)>>
                  /\ observables = <<createObsDS("PauliZ", 0)>>)
                  => jacobian = <<rneg(sin(2 * t))>>
            /\ (operations = <<rotation("RY", t, 0)>>
                  /\ observables = <<createObsDS("PauliX", 0)>>)
                  => jacobian = <<cos(2 * t)>>

\* adjointJacobian has returned -sin(pi/3) = -sqrt(3)/2 for RX(pi/3) and
\* PauliZ
C13_Witness ==
    /\ kernel = "adjointJacobian" /\ Returned /\ psi = cdata(1)
    /\ operations = <<rotation("RX", 2, 0)>>
    /\ observables = <<createObsDS("PauliZ", 0)>>
    /\ trainableParams = {0}
    /\ jacobian = << <<0, 0, -1, 0, 1>> >>

\* C14: for 3 qubits started in |000>, the circuit [RX(theta0) on wire 0,
\* RX(theta1) on wire 1, RX(theta2) on wire 2] with all three parameters
\* trainable and the observables [PauliZ on wire 0, PauliZ on wire 1, PauliZ
\* on wire 2], the 3 x 3 Jacobian of adjointJacobian is diagonal: entry
\* (i, i) is -sin(theta_i) and every other entry is 0.
C14_DiagonalJacobian ==
    (kernel = "adjointJacobian" /\ Returned /\ psi = cdata(3)
        /\ Len(operations) = 3
        /\ (\A pos \in 1..3 :
               /\ operations[pos].params # <<>>
               /\ operations[pos] =
                      rotation("RX", operations[pos].params[1], pos - 1))
        /\ trainableParams = {0, 1, 2}
        /\ observables = [pos \in 1..3 |-> createObsDS("PauliZ", pos - 1)]) =>
        \A row \in 0..2, col \in 0..2 :
            jacobian[row * 3 + col + 1] =
                IF row = col
                THEN rneg(sin(2 * operations[row + 1].params[1]))
                ELSE rint(0)

\* the circuit of the test, with the angles pi, pi/2 and pi/3, has returned:
\* the diagonal is -sin(pi) = 0, -sin(pi/2) = -1, -sin(pi/3) = -sqrt(3)/2
C14_Witness ==
    /\ kernel = "adjointJacobian" /\ Returned
    /\ operations = [w \in 1..3 |-> rotation("RX", param[w], w - 1)]
    /\ trainableParams = {0, 1, 2}
    /\ observables = [w \in 1..3 |-> createObsDS("PauliZ", w - 1)]
    /\ jacobian[1] = rint(0)
    /\ jacobian[5] = rint(-1)
    /\ jacobian[9] = <<0, 0, -1, 0, 1>>
    /\ jacobian[2] = rint(0) /\ jacobian[4] = rint(0)

\* the parameter of the gate at position p is in the caller's trainable set
InTrainableSet(p) ==
    /\ operations[p].params # <<>>
    /\ Cardinality({q \in 1..(p - 1) : operations[q].params # <<>>})
          \in trainableParams

\* C15: in the backward sweep the Jacobian is written only at the steps for
\* gates whose parameter is in the caller's trainable set: the step for a
\* non-parameterized gate, or for a parameterized gate not marked trainable,
\* leaves every Jacobian entry unchanged, yet the gate is un-applied to the
\* ket (which becomes the forward state before the gate) and to every bra
\* (applying the gate again gives the bra back).
C15_OnlyTrainableGatesWrite ==
    [][(kernel = "adjointJacobian" /\ mpc = "sweep" /\ op_idx >= 1
          /\ ~InTrainableSet(op_idx)) =>
          /\ jacobian' = jacobian
          /\ undone'[op_idx] = undone[op_idx] + 1
          /\ ket' = fwd[op_idx]
          /\ \A i \in 1..Len(bras) :
                applyOperation(operations[op_idx], FALSE, bras'[i]) = bras[i]]_vars

\* the sweep has ended for a circuit with a non-parameterized gate and a
\* parameterized gate that is not trainable; the Jacobian has a non-zero
\* entry from a trainable gate
C15_Witness ==
    /\ kernel = "adjointJacobian" /\ Returned
    /\ \E p \in 1..Len(operations) : operations[p].params = <<>>
    /\ \E p \in 1..Len(operations) :
          operations[p].params # <<>> /\ ~InTrainableSet(p)
    /\ \E j \in 1..Len(jacobian) : jacobian[j] # rint(0)
    /\ \A p \in 1..Len(operations) : undone[p] = 1

\* the bra given, with the gates first..last of the circuit applied in order
reapplied(bra, first, last) ==
    LET acc[p \in (first - 1)..last] ==
            IF p = first - 1 THEN bra
            ELSE applyOperation(operations[p], FALSE, acc[p - 1])
    IN  acc[last]

\* C16: the backward sweep visits the gates in strictly reverse circuit
\* order and un-applies each gate exactly once to the ket and to every bra:
\* when the sweep stands before position op_idx, the gates after it have
\* been un-applied once and the others not at all, the ket is the state of
\* the forward pass immediately before gate op_idx + 1, and every bra is its
\* observable's bra with those gates un-applied; the sweep ends after the
\* first gate, with the ket equal to the initial state.
C16_BackwardSweep ==
    (kernel = "adjointJacobian" /\ mpc \in {"sweep", "returned"}) =>
        /\ op_idx \in 0..Len(operations)
        /\ \A p \in 1..Len(operations) :
              undone[p] = IF p > op_idx THEN 1 ELSE 0
        /\ ket = fwd[op_idx + 1]
        /\ \A i \in 1..Len(bras) :
              reapplied(bras[i], op_idx + 1, Len(operations)) =
                  applyObservable(observables[i], fwd[Len(operations) + 1])
        /\ Returned => (op_idx = 0 /\ ket = psi0)

\* the sweep over a circuit of four gates on three qubits has ended, with
\* the ket back at |000> from a different final state
C16_Witness ==
    /\ kernel = "adjointJacobian" /\ Returned
    /\ Len(operations) = 4 /\ psi0 = cdata(3)
    /\ ket = psi0 /\ fwd[5] # psi0 /\ fwd[2] # fwd[3]
    /\ \A p \in 1..4 : undone[p] = 1

\* C17: for every valid gate, named or arbitrary-matrix, and every wire
\* selection, applying the gate and then the same gate with the inverse
\* flag set restores every amplitude of the buffer to its value before the
\* first application.
C17_GateRoundTrip ==
    (kernel = "applyOperation" /\ Returned) =>
        \A a \in 1..Len(psi0) : psi[a] = psi0[a]

\* an arbitrary-matrix gate on two wires, taken in decreasing order, has
\* changed the buffer and its inverse has restored it
C17_Witness ==
    /\ kernel = "applyOperation" /\ Returned
    /\ gate.name = "Matrix" /\ Len(gate.wires) = 2
    /\ gate.wires[1] > gate.wires[2]
    /\ fwd[2] # psi0
    /\ psi = psi0

\* a worker of the first call stands at the lock while a worker of the
\* second call owns the barrier, or the other way round
waits_for_other_call ==
    \/ /\ barrier < unlocked
       /\ \E w \in DOMAIN threads : threads[w].pc = "lock"
    \/ /\ barrier > unlocked
       /\ peer # unused
       /\ \E w \in DOMAIN peer.threads : peer.threads[w].pc = "lock"

\* C18: the math kernels keep no global or persistent state: two innerProd
\* (or innerProdC) calls running at the same time on separate inputs share
\* no variable and no lock, so a worker of one call never waits for a worker
\* of the other call.
C18_CallsShareNoLock ==
    (kernel \in {"innerProd", "innerProdC"} /\ peer # unused) =>
        ~waits_for_other_call

\* C19: partition(n, data_size) for n >= 1 returns exactly n + 1
\* non-decreasing boundaries b with b[0] = 0 and b[n] = data_size; each of
\* the first n - 1 chunks [b[i], b[i+1]) has size floor(data_size / n) and
\* the last chunk absorbs the remainder, having size
\* data_size - (n - 1) * floor(data_size / n).
C19_PartitionBoundaries ==
    (kernel = "partition" /\ Returned) =>
        /\ Len(bnd) = nthreads + 1
        /\ bnd[1] = 0
        /\ bnd[nthreads + 1] = m
        /\ \A c \in 1..nthreads : bnd[c] <= bnd[c + 1]
        /\ \A c \in 1..(nthreads - 1) : bnd[c + 1] - bnd[c] = m \div nthreads
        /\ bnd[nthreads + 1] - bnd[nthreads] =
              m - (nthreads - 1) * (m \div nthreads)

\* partition(3, 8) has returned 0, 2, 4, 8: the last chunk has the two
\* elements of the remainder as well
C19_Witness ==
    /\ kernel = "partition" /\ Returned
    /\ nthreads = 3 /\ m = 8
    /\ bnd = <<0, 2, 4, 8>>

\* the output row of the element at position e of the output buffer
row_of(e) == IF kernel = "matrixVecProd" THEN e - 1 ELSE (e - 1) \div n

\* the workers whose row range [left, right) holds the row r
workers_of(r) ==
    {w \in DOMAIN threads : threads[w].left <= r /\ r < threads[w].right}

\* the workers have all been started by a call with a non-null output
AllSpawned ==
    /\ kernel \in {"matrixVecProd", "matrixMatProd"}
    /\ mpc \in {"join", "return", "returned"}
    /\ out_ptr # nullptr

\* C20: in the fallback path of matrixVecProd and matrixMatProd the row
\* ranges [bnd[i], bnd[i+1]) given to the nthreads workers are pairwise
\* disjoint and their union is [0, m), also when nthreads > m (leading
\* workers then get empty ranges): every row lies in the range of exactly
\* one worker; a step that writes an output element is a step of the one
\* worker whose range holds the element's row, so no output element is ever
\* written by two workers; and when the call returns every output row has
\* been computed once.
C20_DisjointRowRanges ==
    /\ [](AllSpawned =>
            /\ Len(threads) = nthreads
            /\ \A w \in DOMAIN threads :
                  /\ threads[w].left = bnd[w] /\ threads[w].right = bnd[w + 1]
                  /\ 0 <= threads[w].left /\ threads[w].left <= threads[w].right
                  /\ threads[w].right <= m
            /\ \A r \in 0..(m - 1) : Cardinality(workers_of(r)) = 1
            /\ Returned =>
                  \A e \in DOMAIN touched :
                      touched[e] = IF kernel = "matrixVecProd" THEN n ELSE 1)
    /\ [][(kernel \in {"matrixVecProd", "matrixMatProd"}
            /\ mpc \in {"spawn", "join"}) =>
            \A e \in DOMAIN touched :
                (touched'[e] # touched[e] \/ out_ptr'[e] # out_ptr[e]) =>
                    \E w \in DOMAIN threads :
                        /\ threads'[w] # threads[w]
                        /\ workers_of(row_of(e)) = {w}]_vars

\* matrixVecProd with nthreads = 2 > m = 1 has returned: the first worker had
\* the empty range [0, 0), the second the one row, written n = 2 times
C20_Witness ==
    /\ kernel = "matrixVecProd" /\ Returned /\ v_out # nullptr
    /\ nthreads = 2 /\ m = 1 /\ n = 2
    /\ bnd = <<0, 0, 1>>
    /\ threads[1].left = threads[1].right
    /\ workers_of(0) = {2}
    /\ touched = <<2>>

\* the workers executing result += s
updating == {w \in DOMAIN threads : threads[w].pc \in {"load", "store"}}

\* C21: mutual exclusion on the reduction accumulator: in every reachable
\* state at most one worker of _innerProd / _innerProdC is executing the
\* update result += s, and a worker holds the lock only after it has
\* finished its own chunk's dot-product loop (its index stands at the end of
\* its chunk); the workers in their loops hold nothing.
C21_MutualExclusion ==
    IsInner =>
        /\ Cardinality(updating) <= 1
        /\ \A w \in DOMAIN threads :
              /\ w \in updating <=> barrier = w
              /\ barrier = w => threads[w].i = threads[w].r
              /\ threads[w].pc = "loop" => barrier # w

\* the second worker is in the middle of result += s, holding the lock,
\* while the first, its own loop over a non-empty chunk finished, stands at
\* the lock
C21_Witness ==
    /\ IsInner /\ Len(threads) = 2
    /\ threads[2].pc = "store" /\ barrier = 2
    /\ threads[1].pc = "lock" /\ threads[1].r > threads[1].l
    /\ threads[1].i = threads[1].r

\* the loops of two workers overlap: the second worker is part-way through
\* its chunk while the first has not finished its own
LoopsOverlap ==
    /\ IsInner /\ Len(threads) = 2
    /\ threads[1].pc = "loop" /\ threads[2].pc = "loop"
    /\ threads[1].i < threads[1].r
    /\ threads[2].l < threads[2].i /\ threads[2].i < threads[2].r

\* the statement is one of the three conditional macros
IsConditionalMacro == kernel \in {"PL_ABORT_IF", "PL_ABORT_IF_NOT", "PL_ASSERT"}

\* C22: PL_ABORT_IF(e, msg) raises a LightningException if and only if e is
\* true; PL_ABORT_IF_NOT(e, msg) and PL_ASSERT(e) raise one if and only if e
\* is false (PL_ASSERT with the message "Assertion failed: " followed by the
\* expression text); when no exception is raised, execution continues after
\* the macro with no other effect.
C22_ConditionalMacros ==
    /\ []((IsConditionalMacro /\ mpc # "call") =>
            /\ mpc \in {"thrown", "returned"}
            /\ mpc = "thrown" <=>
                  IF kernel = "PL_ABORT_IF" THEN expression.value
                  ELSE ~expression.value
            /\ mpc = "thrown" =>
                  /\ thrown.type = "LightningException"
                  /\ thrown.what[Len(thrown.what)] =
                        IF kernel = "PL_ASSERT"
                        THEN "Assertion failed: " \o expression.text
                        ELSE message
            /\ mpc = "returned" => thrown = unused)
    /\ [][(IsConditionalMacro /\ mpc = "call" /\ mpc' = "returned") =>
            UNCHANGED <<kernel, ret, math, sim, util>>]_vars

\* PL_ASSERT(wires.size() == 1) with the expression false has raised the
\* exception with the expression's text
C22_Witness ==
    /\ kernel = "PL_ASSERT" /\ mpc = "thrown"
    /\ ~expression.value
    /\ thrown.type = "LightningException"
    /\ thrown.what[8] = "Assertion failed: wires.size() == 1"

\* the message argument Abort gets from the macro of the call
abort_message ==
    IF kernel = "PL_ASSERT" THEN "Assertion failed: " \o expression.text
    ELSE message

\* C23: Abort never returns normally: every call raises a LightningException
\* whose what() is exactly
\* "[<file>][Line:<line>][Method:<function>]: Error in PennyLane Lightning: <message>"
\* built from its four arguments, and what() returns the same message on
\* every later call (after each call of what(), counted by calls, the value
\* returned is that message).
C23_AbortThrowsLocatedMessage ==
    /\ (kernel = "PL_ABORT" /\ mpc # "call") => mpc = "thrown"
    /\ (kernel \in {"PL_ABORT", "PL_ABORT_IF", "PL_ABORT_IF_NOT", "PL_ASSERT"}
          /\ mpc = "thrown") =>
          /\ thrown.type = "LightningException"
          /\ calls > 1 =>
                ret = "[" \o file_name \o "][Line:" \o ToString(line)
                          \o "][Method:" \o function_name
                          \o "]: Error in PennyLane Lightning: "
                          \o abort_message

\* what() has been called twice on the exception of a PL_ABORT
C23_Witness ==
    /\ kernel = "PL_ABORT" /\ mpc = "thrown"
    /\ calls >= 3
    /\ ret = "[StateVector.hpp][Line:120][Method:applyOperation]: Error in PennyLane Lightning: Gate not implemented"

\* the values of the calls made so far
RECURSIVE SumValues(_)
SumValues(pairs) ==
    IF pairs = {} THEN 0
    ELSE LET pair == CHOOSE entry \in pairs : TRUE
         IN  pair[2] + SumValues(pairs \ {pair})

\* C24: maxDecimalForQubit is big-endian: the call for qubitIndex < qubits
\* returns 2^(qubits - qubitIndex - 1), so qubit 0 gets the most significant
\* bit 2^(qubits-1) and qubit qubits-1 gets 1; two calls for different qubits
\* return different values, and once every qubit of the register has been
\* asked the values returned sum to 2^qubits - 1.
C24_BigEndianWeights ==
    kernel = "maxDecimalForQubit" =>
        /\ \A pair \in touched :
              /\ pair[2] = 2 ^ (m - pair[1] - 1)
              /\ pair[1] = 0 => pair[2] = 2 ^ (m - 1)
              /\ pair[1] = m - 1 => pair[2] = 1
              /\ \A other \in touched :
                    /\ pair[1] # other[1] => pair[2] # other[2]
                    /\ pair[1] < other[1] => pair[2] > other[2]
        /\ mpc = "returned" => <<n, ret>> \in touched
        /\ {pair[1] : pair \in touched} = 0..(m - 1) =>
              SumValues(touched) = 2 ^ m - 1

C24_Witness ==
    /\ kernel = "maxDecimalForQubit"
    /\ m = 4
    /\ touched = {<<0, 8>>, <<1, 4>>, <<2, 2>>, <<3, 1>>}
    /\ n = 0 /\ ret = 8

\* the workers of matrixMatProd that are about to run the b loop of a cell
in_b_loop ==
    {w \in DOMAIN threads :
        /\ threads[w].pc = "run"
        /\ threads[w].r < threads[w].right
        /\ threads[w].c < n}

\* C25: every index matrixMatProd reads from m_left lies in [0, m*k), every
\* index it reads from m_right lies in [0, k*n), and every index it writes
\* in m_out lies in [0, m*n), for both values of the transpose flag: a
\* worker about to run the b loop of the cell (r, c) reads
\* m_left[r*k + b] and m_right[b*n + c] (transpose) or m_right[c*n + b]
\* (no transpose) for b in [0, k), and writes m_out[r*n + c].
C25_IndicesInRange ==
    (kernel = "matrixMatProd" /\ m_out # nullptr) =>
        \A w \in in_b_loop :
            /\ Len(m_left) = m * k /\ Len(m_right) = k * n
            /\ Len(m_out) = m * n
            /\ ~past_end(m_left, threads[w].r * k, 1, k)
            /\ IF transpose
               THEN ~past_end(m_right, threads[w].c, n, k)
               ELSE ~past_end(m_right, threads[w].c * n, 1, k)
            /\ threads[w].r * n + threads[w].c < Len(m_out)

\* what the sequential path returns for the vectors a and b
sequential_path(a, b) ==
    IF kernel = "innerProd" THEN inner_product_ConstMult(a, b, ZERO)
    ELSE inner_product_ConstMultConj(a, b, ZERO)

\* the partial sum s of the worker of the chunk [l, r)
chunk_sum(a, b, l, r) ==
    LET part[j \in l..r] ==
            IF j = l THEN ZERO
            ELSE cadd(part[j - 1],
                      IF kernel = "innerProd" THEN _innerProd(a[j], b[j])
                      ELSE _innerProdC(a[j], b[j]))
    IN  part[r]

\* what the threaded path with count workers returns for a and b when the
\* workers add their partial sums one after the other
threaded_path(a, b, count) ==
    LET bd == partition(count, Len(a))
        total[j \in 0..count] ==
            IF j = 0 THEN ZERO
            ELSE cadd(total[j - 1], chunk_sum(a, b, bd[j], bd[j + 1]))
    IN  total[count]

\* C26: the crossover selects the strategy, not the result: whichever path
\* innerProd / innerProdC took, the value it returned is the value the
\* sequential path (std::inner_product) gives for the same vectors and the
\* value the threaded path gives for them with any number of workers,
\* whatever the interleaving of the workers was.
C26_PathsAgree ==
    (IsInner /\ Returned) =>
        /\ ret = sequential_path(v1, v2)
        /\ \A count \in 1..MaxThreads : ret = threaded_path(v1, v2, count)

\* innerProdC took the threaded path with two workers, both with a partial
\* sum, on vectors where the conjugation matters; the sequential fold gives
\* the value it returned
C26_Witness ==
    /\ kernel = "innerProdC" /\ Threaded /\ Returned
    /\ Len(threads) = 2
    /\ threads[1].s # ZERO /\ threads[2].s # ZERO
    /\ ret = inner_product_ConstMultConj(v1, v2, ZERO)
    /\ ret # inner_product_ConstMult(v1, v2, ZERO)

num_obs == Len(observables)

\* C27: the Jacobian buffer has num_obs * num_params entries, the entry of
\* the observable i and the trainable parameter j being at i * num_params +
\* j: every index the backward sweep of adjointJacobian writes (the column of
\* the gate it is at, in the row of every observable) and every index a
\* caller reads back as an entry after the call lies in [0, num_obs *
\* num_params); with a single observable, a tensor product included, these
\* are the indices 0 .. num_params - 1.
C27_JacobianIndices ==
    (kernel = "adjointJacobian" /\ jacobian # unused) =>
        /\ Len(jacobian) = num_obs * num_params
        /\ (mpc = "sweep" /\ op_idx >= 1
              /\ is_trainable(operations, op_idx, trainableParams)) =>
              \A row \in 0..(num_obs - 1) :
                  row * num_params
                      + column(trainableParams,
                               param_index(operations, op_idx))
                          \in 0..(num_obs * num_params - 1)
        /\ (mpc = "returned" /\ ti < num_checks) =>
              /\ checked_index(ti) \in 0..(num_obs * num_params - 1)
              /\ num_obs = 1 => checked_index(ti) \in 0..(num_params - 1)

RECURSIVE IsPowerOfTwo(_)
IsPowerOfTwo(s) == s = 1 \/ (s > 1 /\ s % 2 = 0 /\ IsPowerOfTwo(s \div 2))
IsSquare(s) == \E q \in 0..s : q * q = s

\* C28: dimSize reports exactly one error per invalid size, chosen in a
\* fixed order: a size below 4 reports "must be at least 2x2"; a size >= 4
\* that is not a power of two reports "must be a power of 2", a perfect
\* square such as 9 or 36 included; a power of two >= 4 that is not a perfect
\* square (8, 32) reports "must be a perfect square"; the size 0 is rejected
\* by the first test, so the s == 0 test of the power-of-two check is never
\* the reason for an error.
C28_DimSizeErrorOrder ==
    (kernel = "dimSize" /\ mpc # "call") =>
        LET s == Len(data)
            reported(text) ==
                /\ mpc = "thrown"
                /\ thrown = [type |-> "std::invalid_argument",
                             what |-> <<text>>]
        IN  /\ s < 4 => reported("The dataset must be at least 2x2")
            /\ (s >= 4 /\ ~IsPowerOfTwo(s)) =>
                  reported("The dataset must be a power of 2")
            /\ (s >= 4 /\ IsPowerOfTwo(s) /\ ~IsSquare(s)) =>
                  reported("The dataset must be a perfect square")
            /\ (s >= 4 /\ IsPowerOfTwo(s) /\ IsSquare(s)) => mpc = "returned"
            /\ (mpc = "thrown"
                  /\ thrown.what = <<"The dataset must be a power of 2">>) =>
                  /\ s # 0
                  /\ bit_and(s, s - 1) # 0

\* dimSize has rejected a vector of 36 elements, a perfect square, for not
\* being a power of two
C28_Witness ==
    /\ kernel = "dimSize" /\ mpc = "thrown"
    /\ Len(data) = 36
    /\ thrown.what = <<"The dataset must be a power of 2">>

=============================================================================
